---------------------------- MODULE Spec2Model ----------------------------
(***************************************************************************)
(* A model of la_bruteforce, an editor of the hidden parameters of Arturia *)
(* synthesizers over MIDI System Exclusive messages.                       *)
(*                                                                         *)
(* The module holds one state machine per part of the program; unit tells  *)
(* which part runs, and the variables of the other parts keep idle values: *)
(*   SpecCodec    the bounds converter (devices/mod.rs bound_codes,        *)
(*                bound_str) and the range encoding of main.rs             *)
(*   SpecDevice   one command on a connection: query and update of         *)
(*                devices/microbrute.rs, Get and Set of main.rs, midi.rs   *)
(*   SpecReceive  the receive callbacks and the reply decoder              *)
(*   SpecAst      the command tree and its serializer (parse.rs)           *)
(*   SpecKey      the key parsers (schema.rs, devices/microbrute.rs)       *)
(*   SpecWire     the producers of framed messages, side by side           *)
(*   SpecValues   the named values of the discrete parameters, encoded     *)
(*                and decoded (devices/mod.rs)                             *)
(*   SpecNote     the note codec: MidiNote from_str and Display            *)
(*   SpecParseValue  QueryKey::parse_value and Bounds::convert (schema.rs) *)
(*   SpecIndex    the indexes of Seq: parsed, displayed, listed, sent      *)
(*   SpecDecode   the wire decoder SysexReply::parse (parse.rs)            *)
(*   SpecCursor   the cursor PCTX of the decoder: accept, expect, take,    *)
(*                next_byte                                                *)
(*   SpecCache    get and set on the state cache of microbrute.rs          *)
(* Bytes are naturals below 256.  A string is a sequence of symbols: a     *)
(* separator, a digit or a letter is one symbol, and so is a whole name    *)
(* that holds no separator and no digit.  A Rust Result or Option is a     *)
(* record with an ok field; a panic is the error "panic".                  *)
(***************************************************************************)
EXTENDS Integers, Sequences, FiniteSets, TLC

VARIABLES
    unit,        \* the part of the program that is running
    checked,     \* TRUE iff the build traps integer overflow (debug profile)
    \* ---- bounds converter
    c_param,     \* the MicrobruteGlobals parameter being converted
    c_value,     \* the display value typed by the user
    codes,       \* Result<Vec<u8>> of the encoder
    wire,        \* the value byte carried by the reply being decoded
    shown,       \* Option<String> of the decoder
    c_pc,        \* "input" | "encoded" | "decoded"
    \* ---- MicroBruteDevice, sending side
    cmd,         \* the command given: [op, params, values, fail_at]
    msg_id,      \* MicroBruteDevice.msg_id
    sent,        \* the messages the transport accepted while cmd ran
    outcome,     \* the Result cmd returned
    sysex_counter, \* SysexConnection.sysex_counter
    d_pc,        \* "idle" | "done"
    \* ---- receive callbacks
    rx,          \* the last buffer delivered to a callback
    result_map,  \* the LinkedHashMap<String, Vec<String>> of sysex_receiver
    received_values, \* the LinkedHashMap<SysexParamId, MidiValue> of init_receiver
    n_recv,      \* the number of buffers delivered so far
    r_pc,        \* "open" | "panicked" | "closed"
    \* ---- AST serializer
    arena,       \* AST.arena: the nodes [token, children], the root first
    form,        \* the Form given to to_sysex
    messages,    \* the Vec<Vec<u8>> returned by to_sysex
    a_pc,        \* "build" | "done"
    \* ---- key parsers
    param_key,   \* the key text given
    parsed,      \* the Result of the parser
    k_pc,        \* "input" | "schema" | "microbrute"
    \* ---- note codec
    n_text,      \* the note text given to MidiNote::from_str
    n_byte,      \* the note value given to Display
    n_note,      \* the Result<MidiNote> of from_str
    n_shown,     \* the text Display wrote, or the panic it raised
    n_pc,        \* "input" | "parsed" | "reshown" | "shown" | "reparsed"
    \* ---- schema value parser
    v_key,       \* the QueryKey whose bounds are tried
    v_text,      \* the value text given
    v_tried,     \* the Result of Bounds::convert for each bound, in order
    v_value,     \* the Result<Value> of parse_value
    v_pc,        \* "input" | "parsed"
    \* ---- wire decoder
    vendors,     \* schema::VENDORS.values(): the vendors in declaration order
    p_message,   \* PCTX.message: the buffer being read
    p_pos,       \* PCTX.pos
    p_op,        \* the last call on the decoder or on the cursor: [name, arg]
    p_result,    \* what that call returned
    reply_ast,   \* SysexReply.ast
    p_frames,    \* the buffers given to SysexReply::parse so far
    \* ---- Microbrute state cache
    mb_state,    \* Microbrute.state: the cached value of each parameter
    mb_counter,  \* Microbrute.sysex_counter
    mb_out,      \* the messages conn_out accepted
    mb_call,     \* the last call of set: [param, value]
    mb_result    \* the Result<Option<MidiValue>> it returned

codecVars == <<c_param, c_value, codes, wire, shown, c_pc>>
deviceVars == <<cmd, msg_id, sent, outcome, sysex_counter, d_pc>>
recvVars == <<rx, result_map, received_values, n_recv, r_pc>>
astVars == <<arena, form, messages, a_pc>>
keyVars == <<param_key, parsed, k_pc>>
noteVars == <<n_text, n_byte, n_note, n_shown, n_pc>>
valueVars == <<v_key, v_text, v_tried, v_value, v_pc>>

decodeVars == <<vendors, p_message, p_pos, p_op, p_result, reply_ast, p_frames>>
cacheVars == <<mb_state, mb_counter, mb_out, mb_call, mb_result>>

vars == <<unit, checked, codecVars, deviceVars, recvVars, astVars, keyVars, noteVars, valueVars,
          decodeVars, cacheVars>>

-----------------------------------------------------------------------------
(* Bounds of the model *)

\* display values typed by the user range over 0 .. MaxDisplay
MaxDisplay == 20
\* value bytes received from the device range over 0 .. MaxWire
MaxWire == 20
\* a query names at most MaxParams parameters
MaxParams == 2
\* the transport send that fails is one of the first MaxFailAt, or none
MaxFailAt == 2

-----------------------------------------------------------------------------
(* Bytes, strings and results *)

U8 == 256

Ok(v) == [ok |-> TRUE, val |-> v, err |-> ""]
Err(e) == [ok |-> FALSE, val |-> <<>>, err |-> e]
Some(v) == [ok |-> TRUE, val |-> v]
None == [ok |-> FALSE, val |-> <<>>]

Digits == <<"0", "1", "2", "3", "4", "5", "6", "7", "8", "9">>

IsDigit(c) == \E d \in 1..10 : Digits[d] = c

DigitVal(c) == (CHOOSE d \in 1..10 : Digits[d] = c) - 1

RECURSIVE ParseNat(_)
ParseNat(s) ==
    IF s = <<>> THEN 0
    ELSE 10 * ParseNat(SubSeq(s, 1, Len(s) - 1)) + DigitVal(s[Len(s)])

\* u8::from_str: a non-empty run of decimal digits whose value fits a byte
U8FromStr(s) ==
    IF s = <<>> \/ \E i \in 1..Len(s) : ~IsDigit(s[i]) THEN Err("ParseIntError")
    ELSE IF ParseNat(s) >= U8 THEN Err("ParseIntError")
    ELSE Ok(ParseNat(s))

RECURSIVE to_string(_)
\* the decimal text of a natural, as {} formats it
to_string(n) ==
    IF n < 10 THEN <<Digits[n + 1]>>
    ELSE to_string(n \div 10) \o <<Digits[(n % 10) + 1]>>

-----------------------------------------------------------------------------
(* The note codec (devices/mod.rs) *)

\* enum NoteName, in declaration order, with its discriminants
NoteName == << [name |-> "C", v |-> 0], [name |-> "D", v |-> 2],
               [name |-> "E", v |-> 4], [name |-> "F", v |-> 5],
               [name |-> "G", v |-> 7], [name |-> "A", v |-> 9],
               [name |-> "B", v |-> 11] >>

\* NoteName::from_str of one character (strum EnumString)
NoteNameFromStr(c) ==
    IF \E i \in 1..Len(NoteName) : NoteName[i].name = c
    THEN Ok(NoteName[CHOOSE i \in 1..Len(NoteName) : NoteName[i].name = c].v)
    ELSE Err("VariantNotFound")

\* a from_str that starts octave 0 at value 0 instead of 12
MidiNoteFromStr_from_zero(s) ==
    IF s = <<>> THEN Err("NoteParse")
    ELSE LET letter == NoteNameFromStr(s[1])
             sharp == Len(s) >= 2 /\ s[2] = "#"
             note == letter.val + (IF sharp THEN 1 ELSE 0)
             at == IF sharp THEN 3 ELSE 2
             octave == IF Len(s) >= at THEN U8FromStr(<<s[at]>>) ELSE Ok(0)
         IN IF ~letter.ok THEN letter
            ELSE IF ~octave.ok THEN octave
            ELSE Ok(octave.val * 12 + note)

\* impl FromStr for MidiNote: letter, optional '#', one optional octave
\* character; whatever follows the octave character is not read
MidiNoteFromStr(s) ==
    IF s = <<>> THEN Err("NoteParse")
    ELSE LET letter == NoteNameFromStr(s[1])
             sharp == Len(s) >= 2 /\ s[2] = "#"
             note == letter.val + (IF sharp THEN 1 ELSE 0)
             at == IF sharp THEN 3 ELSE 2
             octave == IF Len(s) >= at THEN U8FromStr(<<s[at]>>) ELSE Ok(0)
         IN IF ~letter.ok THEN letter
            ELSE IF ~octave.ok THEN octave
            ELSE Ok(octave.val * 12 + note + 12)

\* the loop of impl Display for MidiNote over NoteName::iter(), from entry i
\* with prev_note the entry before it
RECURSIVE NoteLoop(_, _, _)
NoteLoop(i, prev_note, n) ==
    IF i > Len(NoteName) THEN <<>>
    ELSE IF NoteName[i].v = n THEN <<NoteName[i].name>>
    ELSE IF NoteName[i].v > n THEN <<prev_note, "#">>
    ELSE NoteLoop(i + 1, NoteName[i].name, n)

\* impl Display for MidiNote: (note - 12) / 12 is a u8 subtraction, which
\* traps in a checked build and wraps otherwise when note < 12
MidiNoteToString(note, chk) ==
    IF note < 12 /\ chk THEN Err("panic")
    ELSE LET oct == ((note - 12) % U8) \div 12
         IN Ok(NoteLoop(1, "C", note % 12) \o to_string(oct))

-----------------------------------------------------------------------------
(* The MicroBrute parameters and their bounds (devices/microbrute.rs) *)

\* enum MicrobruteGlobals in declaration order; Seq carries an index
GlobalNames == << "KeyNotePriority", "KeyVelocityResponse", "MidiSendChan",
                  "MidiRecvChan", "LfoKeyRetrig", "EnvLegatoMode", "BendRange",
                  "Gate", "Sync", "SeqPlay", "SeqKeyRetrig", "SeqNextSeq",
                  "SeqStepOn", "SeqStep", "Seq" >>

Global(name) == [name |-> name, idx |-> 0]
SeqParam(idx) == [name |-> "Seq", idx |-> idx]

RangeParams == {Global("MidiSendChan"), Global("MidiRecvChan"), Global("BendRange")}

Discrete(values) == [kind |-> "Discrete", values |-> values]
Range(offset, lo, hi) == [kind |-> "Range", offset |-> offset, lo |-> lo, hi |-> hi]
NoteSeq(offset) == [kind |-> "NoteSeq", offset |-> offset]

bounds(param) ==
    CASE param.name = "KeyNotePriority" ->
           Discrete(<< <<0, <<"LastNote">> >>, <<1, <<"LowNote">> >>, <<2, <<"HighNote">> >> >>)
      [] param.name = "KeyVelocityResponse" ->
           Discrete(<< <<0, <<"Logarithmic">> >>, <<1, <<"Exponential">> >>, <<2, <<"Linear">> >> >>)
      [] param.name = "MidiRecvChan" -> Range(1, 1, 16)
      [] param.name = "MidiSendChan" -> Range(1, 1, 16)
      [] param.name = "LfoKeyRetrig" -> Discrete(<< <<0, <<"Off">> >>, <<1, <<"On">> >> >>)
      [] param.name = "EnvLegatoMode" -> Discrete(<< <<0, <<"Off">> >>, <<1, <<"On">> >> >>)
      [] param.name = "BendRange" -> Range(1, 1, 12)
      [] param.name = "Gate" ->
           Discrete(<< <<1, <<"Short">> >>, <<2, <<"Medium">> >>, <<3, <<"Long">> >> >>)
      [] param.name = "Sync" ->
           Discrete(<< <<0, <<"Auto">> >>, <<1, <<"Internal">> >>, <<2, <<"External">> >> >>)
      [] param.name = "SeqPlay" -> Discrete(<< <<0, <<"Hold">> >>, <<1, <<"NoteOn">> >> >>)
      [] param.name = "SeqKeyRetrig" ->
           Discrete(<< <<0, <<"Reset">> >>, <<1, <<"Legato">> >>, <<2, <<"None">> >> >>)
      [] param.name = "SeqNextSeq" ->
           Discrete(<< <<0, <<"End">> >>, <<1, <<"Reset">> >>, <<2, <<"Continue">> >> >>)
      [] param.name = "SeqStep" ->
           Discrete(<< <<4, <<"1", "/", "4">> >>, <<8, <<"1", "/", "8">> >>,
                       <<16, <<"1", "/", "1", "6">> >>, <<32, <<"1", "/", "3", "2">> >> >>)
      [] param.name = "SeqStepOn" -> Discrete(<< <<0, <<"Clock">> >>, <<1, <<"Gate">> >> >>)
      [] param.name = "Seq" -> NoteSeq(24)

bound_reqs(param) == IF param.name = "Seq" THEN <<0, 64>> ELSE <<1, 1>>

-----------------------------------------------------------------------------
(* The bounds converter (devices/mod.rs) *)

\* a Discrete arm that returns the position of the pair, not its byte
bound_codes_discrete_position(b, b_id) ==
    IF \E i \in 1..Len(b.values) : b.values[i][2] = b_id
    THEN Ok(<<(CHOOSE i \in 1..Len(b.values) : b.values[i][2] = b_id) - 1>>)
    ELSE Err("UnknownValue")

\* bound_codes, Discrete arm: the first pair whose name is b_id
bound_codes_discrete(b, b_id) ==
    IF \E i \in 1..Len(b.values) : b.values[i][2] = b_id
    THEN LET i == CHOOSE i \in 1..Len(b.values) :
                    /\ b.values[i][2] = b_id
                    /\ \A j \in 1..(i - 1) : b.values[j][2] # b_id
         IN Ok(<<b.values[i][1]>>)
    ELSE Err("UnknownValue")

\* bound_codes, Range arm: parse, check lo <= val <= hi, subtract the offset
bound_codes_range(b, b_id, chk) ==
    LET val == U8FromStr(b_id) IN
    IF ~val.ok THEN val
    ELSE IF val.val >= b.lo /\ val.val <= b.hi
         THEN IF val.val < b.offset
              THEN (IF chk THEN Err("panic") ELSE Ok(<<(val.val - b.offset) % U8>>))
              ELSE Ok(<<val.val - b.offset>>)
         ELSE Err("ValueOutOfBound")

\* bound_codes, NoteSeq arm: each note text through MidiNote::from_str, plus
\* the offset (a u8 addition); the loop returns at the first text that does
\* not parse (or the first addition that traps)
bound_codes_noteseq(b, bound_ids, chk) ==
    LET n == [i \in 1..Len(bound_ids) |-> MidiNoteFromStr(bound_ids[i])]
        stops(i) == ~n[i].ok \/ (n[i].val + b.offset >= U8 /\ chk)
    IN IF \E i \in 1..Len(bound_ids) : stops(i)
       THEN LET i == CHOOSE i \in 1..Len(bound_ids) :
                       stops(i) /\ \A j \in 1..(i - 1) : ~stops(j)
            IN IF ~n[i].ok THEN n[i] ELSE Err("panic")
       ELSE Ok([i \in 1..Len(bound_ids) |-> (n[i].val + b.offset) % U8])

bound_codes(b, bound_ids, reqs, chk) ==
    IF Len(bound_ids) < reqs[1] THEN Err("MissingValue")
    ELSE IF Len(bound_ids) > reqs[2] THEN Err("TooManyValues")
    ELSE CASE b.kind = "Discrete" -> bound_codes_discrete(b, bound_ids[1])
           [] b.kind = "Range" -> bound_codes_range(b, bound_ids[1], chk)
           [] b.kind = "NoteSeq" -> bound_codes_noteseq(b, bound_ids, chk)

\* bound_str, Discrete arm: the first pair whose byte is first
bound_str_discrete(b, first) ==
    IF \E i \in 1..Len(b.values) : b.values[i][1] = first
    THEN LET i == CHOOSE i \in 1..Len(b.values) :
                    /\ b.values[i][1] = first
                    /\ \A j \in 1..(i - 1) : b.values[j][1] # first
         IN Some(b.values[i][2])
    ELSE None

\* bound_str, Range arm: the wire byte itself is compared with lo and hi,
\* then the offset is added (a u8 addition)
bound_str_range(b, first, chk) ==
    IF first >= b.lo /\ first <= b.hi
    THEN IF first + b.offset >= U8 /\ chk THEN Some(<<"panic">>)
         ELSE Some(to_string((first + b.offset) % U8))
    ELSE None

RECURSIVE JoinComma(_)
JoinComma(strs) ==
    IF Len(strs) = 1 THEN strs[1] ELSE strs[1] \o <<",">> \o JoinComma(Tail(strs))

\* bound_str, NoteSeq arm: every byte minus the offset (a u8 subtraction),
\* shown as a note, joined by commas
bound_str_noteseq(b, vcode, chk) ==
    LET shown1 == [i \in 1..Len(vcode) |-> MidiNoteToString((vcode[i] - b.offset) % U8, chk)]
        traps(i) == (vcode[i] < b.offset /\ chk) \/ ~shown1[i].ok
    IN IF \E i \in 1..Len(vcode) : traps(i) THEN Some(<<"panic">>)
       ELSE Some(JoinComma([i \in 1..Len(vcode) |-> shown1[i].val]))

bound_str(b, vcode, chk) ==
    IF vcode = <<>> THEN None
    ELSE CASE b.kind = "Discrete" -> bound_str_discrete(b, vcode[1])
           [] b.kind = "Range" -> bound_str_range(b, vcode[1], chk)
           [] b.kind = "NoteSeq" -> bound_str_noteseq(b, vcode, chk)

\* main, Command::Set, ParameterBounds::Range arm: the bounds are not read;
\* the u8 subtraction traps or wraps below the offset
main_set_range(offset, value_name, chk) ==
    LET val == U8FromStr(value_name) IN
    IF ~val.ok THEN val
    ELSE IF val.val < offset
         THEN (IF chk THEN Err("panic") ELSE Ok(<<(val.val - offset) % U8>>))
         ELSE Ok(<<val.val - offset>>)

-----------------------------------------------------------------------------
(* The MicroBrute key parser and wire codes (devices/microbrute.rs) *)

SYSEX_BEGIN == 240   \* 0xf0
SYSEX_END == 247     \* 0xf7
REST_NOTE == 127     \* 0x7f
MICROBRUTE == <<0, 32, 107, 5>>   \* 0x00 0x20 0x6b 0x05

IndexOf(s, c) == CHOOSE i \in 1..Len(s) : s[i] = c /\ \A j \in 1..(i - 1) : s[j] # c

RECURSIVE Split(_, _)
\* str::split: the pieces of s between the occurrences of sep
Split(s, sep) ==
    IF \A i \in 1..Len(s) : s[i] # sep THEN <<s>>
    ELSE LET i == IndexOf(s, sep)
         IN <<SubSeq(s, 1, i - 1)>> \o Split(SubSeq(s, i + 1, Len(s)), sep)

StartsWith(s, prefix) ==
    Len(s) >= Len(prefix) /\ SubSeq(s, 1, Len(prefix)) = prefix

\* MicrobruteGlobals::from_str (strum EnumString): a variant name, its data
\* defaulted, so "Seq" is Seq(0)
GlobalsFromStr(s) ==
    IF Len(s) = 1 /\ \E i \in 1..Len(GlobalNames) : GlobalNames[i] = s[1]
    THEN Ok(Global(s[1]))
    ELSE Err("VariantNotFound")

\* MicrobruteGlobals::parse: the index is parsed and decremented (a u8
\* subtraction) before the name is looked at; max_index is not consulted
parse(s, chk) ==
    LET parts == Split(s, "/") IN
    IF Len(parts) >= 2
    THEN LET idx == U8FromStr(parts[2]) IN
         IF ~idx.ok THEN idx
         ELSE IF idx.val = 0 /\ chk THEN Err("panic")
         ELSE IF parts[1] = <<"Seq">> THEN Ok(SeqParam((idx.val - 1) % U8))
         ELSE Err("UnknownParameter")
    ELSE GlobalsFromStr(s)

\* MicrobruteGlobals::max_index
max_index(param) == IF param.name = "Seq" THEN Some(8) ELSE None

\* MicrobruteGlobals::index
index(param) == IF param.name = "Seq" THEN Some(param.idx) ELSE None

sysex_data_code(param) ==
    CASE param.name = "KeyNotePriority" -> <<1, 11>>
      [] param.name = "KeyVelocityResponse" -> <<1, 17>>
      [] param.name = "MidiSendChan" -> <<1, 7>>
      [] param.name = "MidiRecvChan" -> <<1, 5>>
      [] param.name = "LfoKeyRetrig" -> <<1, 15>>
      [] param.name = "EnvLegatoMode" -> <<1, 13>>
      [] param.name = "BendRange" -> <<1, 44>>
      [] param.name = "Gate" -> <<1, 54>>
      [] param.name = "Sync" -> <<1, 60>>
      [] param.name = "SeqPlay" -> <<1, 46>>
      [] param.name = "SeqKeyRetrig" -> <<1, 52>>
      [] param.name = "SeqNextSeq" -> <<1, 50>>
      [] param.name = "SeqStepOn" -> <<1, 42>>
      [] param.name = "SeqStep" -> <<1, 56>>
      [] param.name = "Seq" -> <<35, 58>>

sysex_query_code(param) ==
    LET z == sysex_data_code(param) IN <<z[1], z[2] + 1>>

\* a Display that writes the internal index as it is
GlobalsToString_zero_based(param, chk) ==
    IF param.name # "Seq" THEN Ok(<<param.name>>)
    ELSE Ok(<<"Seq", "/">> \o to_string(param.idx))

\* impl Display for MicrobruteGlobals: the name, and for Seq "/" and idx + 1
\* (a u8 addition)
GlobalsToString(param, chk) ==
    IF param.name # "Seq" THEN Ok(<<param.name>>)
    ELSE IF param.idx + 1 >= U8 /\ chk THEN Err("panic")
    ELSE Ok(<<"Seq", "/">> \o to_string((param.idx + 1) % U8))

RECURSIVE Concat(_)
Concat(parts) == IF parts = <<>> THEN <<>> ELSE Head(parts) \o Concat(Tail(parts))

\* MicroBruteDescriptor::globals: the variants in declaration order, one key
\* per index 1..=max for a variant with a max_index
globals ==
    Concat([i \in 1..Len(GlobalNames) |->
              LET p == Global(GlobalNames[i]) IN
              IF max_index(p).ok
              THEN [idx \in 1..max_index(p).val |-> <<p.name, "/">> \o to_string(idx)]
              ELSE << <<p.name>> >>])

\* devices::sysex: 0xf0, the vendor bytes, the parts, 0xf7
sysex(vendor, parts) == <<SYSEX_BEGIN>> \o vendor \o Concat(parts) \o <<SYSEX_END>>

-----------------------------------------------------------------------------
(* MicroBruteDevice: query and update (devices/microbrute.rs) *)

BLOCK_SIZE == 32       \* static BLOCK_SIZE: u8 = 0x20
SEQ_BUFFER == 64       \* bcodes is padded to 64 bytes
BLOCK_RANGE_END == 1   \* for block in 0..1

\* The connection while a command runs: the messages sent so far, the
\* message counter, the command's result so far, and the number of the
\* transport send that fails (0: none fails).
Conn(id, fail_at) == [sent |-> <<>>, msg_id |-> id, outcome |-> Ok(<<>>), fail_at |-> fail_at]

Fail(st, e) == [st EXCEPT !.outcome = e]

\* MidiOutputConnection::send(message)?  -- skipped once the command has
\* returned; the transport refuses the send numbered st.fail_at
connection_send(st, message) ==
    IF ~st.outcome.ok THEN st
    ELSE IF st.fail_at = Len(st.sent) + 1 THEN Fail(st, Err("SendError"))
    ELSE [st EXCEPT !.sent = Append(@, message)]

\* a counter that is incremented whether or not the send returned Ok
counted_always(st) == [st EXCEPT !.msg_id = @ + 1]

\* the counter is incremented after a send that returned Ok
counted(st) == IF st.outcome.ok THEN [st EXCEPT !.msg_id = @ + 1] ELSE st

\* self.midi_connection.send(&sysex(MICROBRUTE, &[&[0x01, self.msg_id as u8],
\* parts..]))?; self.msg_id += 1;
send(st, parts) ==
    IF ~st.outcome.ok THEN st
    ELSE counted(connection_send(st, sysex(MICROBRUTE, << <<1, st.msg_id % U8>> >> \o parts)))

\* a turn of the query loop that asks for the second block of a sequence
\* before the first
query_one_reversed(st, param_str, chk) ==
    LET param == parse(param_str, chk) IN
    IF ~param.ok THEN Fail(st, param)
    ELSE LET query_code == sysex_query_code(param.val)
             idx == index(param.val)
         IN IF idx.ok
            THEN send(send(st, <<query_code, <<idx.val, 32, 32>> >>),
                      <<query_code, <<idx.val, 0, 32>> >>)
            ELSE send(st, <<query_code>>)

\* one turn of the loop of MicroBruteDevice::query: the key is parsed, then
\* one request is sent, or two for an indexed parameter
query_one(st, param_str, chk) ==
    LET param == parse(param_str, chk) IN
    IF ~param.ok THEN Fail(st, param)
    ELSE LET query_code == sysex_query_code(param.val)
             idx == index(param.val)
         IN IF idx.ok
            THEN send(send(st, <<query_code, <<idx.val, 0, 32>> >>),
                      <<query_code, <<idx.val, 32, 32>> >>)
            ELSE send(st, <<query_code>>)

RECURSIVE query(_, _, _)
\* MicroBruteDevice::query, up to close_wait: the loop over params stops at
\* the first error
query(st, params, chk) ==
    IF params = <<>> \/ ~st.outcome.ok THEN st
    ELSE query(query_one(st, Head(params), chk), Tail(params), chk)

Zeros(n) == [i \in 1..n |-> 0]

RECURSIVE update_blocks(_, _, _, _, _)
\* the block loop of the Seq arm of MicroBruteDevice::update, from block on
update_blocks(st, block, seqlen, param, bcodes) ==
    IF block >= BLOCK_RANGE_END \/ ~st.outcome.ok THEN st
    ELSE LET offset == BLOCK_SIZE * block
             st1 == send(st, << sysex_data_code(param),
                                <<param.idx, offset % U8,
                                  IF seqlen > BLOCK_SIZE THEN BLOCK_SIZE ELSE seqlen>>,
                                SubSeq(bcodes, offset + 1, offset + BLOCK_SIZE) >>)
         IN update_blocks(st1, block + 1,
                          IF seqlen > BLOCK_SIZE THEN seqlen - BLOCK_SIZE ELSE seqlen,
                          param, bcodes)

\* MicroBruteDevice::update
update(st, param_str, value_ids, chk) ==
    LET param == parse(param_str, chk) IN
    IF ~param.ok THEN Fail(st, param)
    ELSE LET bcodes == bound_codes(bounds(param.val), value_ids, bound_reqs(param.val), chk) IN
         IF ~bcodes.ok THEN Fail(st, bcodes)
         ELSE IF param.val.name = "Seq"
              THEN update_blocks(st, 0, Len(bcodes.val), param.val,
                                 bcodes.val \o Zeros(SEQ_BUFFER - Len(bcodes.val)))
              ELSE IF bcodes.val = <<>> THEN Fail(st, Err("MissingValue"))
              ELSE send(st, <<sysex_data_code(param.val), <<bcodes.val[1]>> >>)

-----------------------------------------------------------------------------
(* SysexConnection and the Get and Set commands (midi.rs, main.rs) *)

SYSEX_QUERY_START == <<240, 126, 127, 6, 1, 247>>

sysex_query_msg(counter, param) ==
    <<240, 0, 32, 107, 5, 1, counter % U8, 0, param, 247>>

sysex_update_msg(counter, param, value) ==
    <<240, 0, 32, 107, 5, 1, counter % U8, 1, param, value, 247>>

\* SysexConnection::query_value; st.msg_id stands for sysex_counter
query_value(st, param_id) ==
    counted(connection_send(connection_send(st, SYSEX_QUERY_START),
                            sysex_query_msg(st.msg_id, param_id)))

\* SysexConnection::send_value
send_value(st, param, value) ==
    counted(connection_send(st, sysex_update_msg(st.msg_id, param, value)))

\* DeviceDescriptor.params of the device the command names: the parameters
\* of the MicroBrute that carry one value
DescriptorParams ==
    [i \in 1..(Len(GlobalNames) - 1) |->
        [name |-> <<GlobalNames[i]>>,
         sysex_tx_id |-> sysex_data_code(Global(GlobalNames[i]))[2],
         bounds |-> bounds(Global(GlobalNames[i]))]]

\* device.params.iter().find(|p| p.name.eq(&param_name)).ok_or(InvalidParam)
find_param(params, param_name) ==
    IF \E i \in 1..Len(params) : params[i].name = param_name
    THEN Ok(params[CHOOSE i \in 1..Len(params) :
                      /\ params[i].name = param_name
                      /\ \A j \in 1..(i - 1) : params[j].name # param_name])
    ELSE Err("InvalidParam")

RECURSIVE get_all(_, _)
\* Command::Get without names: every parameter of the device is queried
get_all(st, params) ==
    IF params = <<>> \/ ~st.outcome.ok THEN st
    ELSE get_all(query_value(st, Head(params).sysex_tx_id), Tail(params))

RECURSIVE get_named(_, _, _)
\* Command::Get with names: each name is looked up, then queried, in turn
get_named(st, params, param_names) ==
    IF param_names = <<>> \/ ~st.outcome.ok THEN st
    ELSE LET param == find_param(params, Head(param_names)) IN
         IF ~param.ok THEN Fail(st, param)
         ELSE get_named(query_value(st, param.val.sysex_tx_id), params, Tail(param_names))

\* the closure main gives to query() for Command::Get
command_get(st, params, param_names) ==
    IF param_names = <<>> THEN get_all(st, params) ELSE get_named(st, params, param_names)

\* main, Command::Set, from the lookup of the parameter to send_value
command_set(st, params, param_name, value_name, chk) ==
    LET param == find_param(params, param_name) IN
    IF ~param.ok THEN Fail(st, param)
    ELSE LET vbound ==
                 IF param.val.bounds.kind = "Discrete"
                 THEN (LET c == bound_codes_discrete(param.val.bounds, value_name) IN
                       IF c.ok THEN c ELSE Err("InvalidValue"))
                 ELSE main_set_range(param.val.bounds.offset, value_name, chk)
         IN IF ~vbound.ok THEN Fail(st, vbound)
            ELSE send_value(st, param.val.sysex_tx_id, vbound.val[1])

-----------------------------------------------------------------------------
(* The receive callback and the reply decoder *)

\* LinkedHashMap<String, Vec<String>>: the entries <<key, value>> in order
HasKey(map, key) == \E i \in 1..Len(map) : map[i][1] = key

Without(map, key) == SelectSeq(map, LAMBDA e : e[1] # key)

\* LinkedHashMap::insert: an existing entry is replaced and moved to the end
Insert(map, key, value) == Append(Without(map, key), <<key, value>>)

\* entry(key).or_insert(vec![]) followed by pushes of notes onto the entry
PushAll(map, key, notes) ==
    IF HasKey(map, key)
    THEN [i \in 1..Len(map) |-> IF map[i][1] = key THEN <<key, map[i][2] \o notes>> ELSE map[i]]
    ELSE Append(map, <<key, notes>>)

\* into_param (devices/microbrute.rs): reads msg[3], and msg[4] for Seq
into_param(msg) ==
    IF Len(msg) < 4 THEN Err("panic")
    ELSE IF \E i \in 1..Len(GlobalNames) : sysex_data_code(Global(GlobalNames[i]))[2] = msg[4]
    THEN LET i == CHOOSE i \in 1..Len(GlobalNames) :
                    /\ sysex_data_code(Global(GlobalNames[i]))[2] = msg[4]
                    /\ \A j \in 1..(i - 1) : sysex_data_code(Global(GlobalNames[j]))[2] # msg[4]
         IN IF GlobalNames[i] = "Seq"
            THEN (IF Len(msg) < 5 THEN Err("panic") ELSE Ok(Some(SeqParam(msg[5]))))
            ELSE Ok(Some(Global(GlobalNames[i])))
    ELSE Ok(None)

\* the text pushed for one note byte of a sequence reply
NoteText(nval, chk) ==
    IF nval = REST_NOTE THEN Ok(<<"_">>)
    ELSE IF nval < 24 THEN Ok(<<"?">> \o to_string(nval))
    ELSE MidiNoteToString(nval - 24, chk)

\* the note bytes the loop of decode visits: those before the first 0
Visited(bytes) ==
    IF \E i \in 1..Len(bytes) : bytes[i] = 0
    THEN SubSeq(bytes, 1, IndexOf(bytes, 0) - 1)
    ELSE bytes

\* decode (devices/microbrute.rs): the map after the call, or a panic
decode(msg, map, chk) ==
    LET param == into_param(msg) IN
    IF ~param.ok THEN Err("panic")
    ELSE IF ~param.val.ok THEN Ok(map)
    ELSE IF param.val.val.name = "Seq"
    THEN LET key == GlobalsToString(param.val.val, chk)
             notes == Visited(SubSeq(msg, 8, Len(msg)))
             texts == [i \in 1..Len(notes) |-> NoteText(notes[i], chk)]
         IN IF ~key.ok \/ Len(msg) < 7 THEN Err("panic")
            ELSE IF \E i \in 1..Len(notes) : ~texts[i].ok THEN Err("panic")
            ELSE Ok(PushAll(map, key.val, [i \in 1..Len(notes) |-> texts[i].val]))
    ELSE IF Len(msg) < 5 THEN Err("panic")
    ELSE LET bound == bound_str(bounds(param.val.val), <<msg[5]>>, chk) IN
         IF bound.ok
         THEN Ok(Insert(map, GlobalsToString(param.val.val, chk).val, <<bound.val>>))
         ELSE Ok(map)

\* the closure given to midi_in.connect by Device::sysex_receiver
\* (devices/mod.rs): message[0] and message[len - 1] are read first
sysex_receiver(message, match_header, map, chk) ==
    IF message = <<>> THEN Err("panic")
    ELSE IF /\ message[1] = SYSEX_BEGIN
            /\ message[Len(message)] = SYSEX_END
            /\ StartsWith(Tail(message), match_header)
         THEN decode(SubSeq(message, Len(match_header) + 2, Len(message) - 1), map, chk)
         ELSE Ok(map)

\* is_device_sysex (midi.rs): the conditions are read left to right and stop
\* at the first that fails; each reads one byte of the message
is_device_sysex(message, device_code) ==
    LET conds == << <<2, 0>>, <<3, 32>>, <<4, 107>>, <<5, device_code>>, <<6, 1>>, <<8, 1>> >>
        fails(i) == Len(message) < conds[i][1] \/ message[conds[i][1]] # conds[i][2]
    IN IF \A i \in 1..Len(conds) : ~fails(i) THEN Ok(TRUE)
       ELSE LET i == CHOOSE i \in 1..Len(conds) : fails(i) /\ \A j \in 1..(i - 1) : ~fails(j)
            IN IF Len(message) < conds[i][1] THEN Err("panic") ELSE Ok(FALSE)

\* the closure given to midi_in.connect by SysexConnection::init_receiver
\* (midi.rs); it reads message[8] and message[9]
init_receiver(message, sysex_out_id, values) ==
    IF message = <<>> THEN Err("panic")
    ELSE IF message[1] = SYSEX_BEGIN /\ message[Len(message)] = SYSEX_END
    THEN LET mine == is_device_sysex(message, sysex_out_id) IN
         IF ~mine.ok THEN mine
         ELSE IF ~mine.val THEN Ok(values)
         ELSE IF Len(message) < 10 THEN Err("panic")
         ELSE Ok(Insert(values, message[9], message[10]))
    ELSE Ok(values)

BEATSTEP == <<0, 32, 107, 127, 66>>   \* 0x00 0x20 0x6b 0x7f 0x42

\* the text decode of devices/beatstep.rs pushes for one note byte: it has
\* no arm for the rest byte
NoteTextBeatStep(nval, chk) ==
    IF nval < 24 THEN Ok(<<"?">> \o to_string(nval))
    ELSE MidiNoteToString(nval - 24, chk)

\* decode (devices/beatstep.rs): the map after the call, or a panic
beatstep_decode(msg, map, chk) ==
    LET param == into_param(msg) IN
    IF ~param.ok THEN Err("panic")
    ELSE IF ~param.val.ok THEN Ok(map)
    ELSE IF param.val.val.name = "Seq"
    THEN LET key == GlobalsToString(param.val.val, chk)
             notes == Visited(SubSeq(msg, 8, Len(msg)))
             texts == [i \in 1..Len(notes) |-> NoteTextBeatStep(notes[i], chk)]
         IN IF ~key.ok \/ Len(msg) < 7 THEN Err("panic")
            ELSE IF \E i \in 1..Len(notes) : ~texts[i].ok THEN Err("panic")
            ELSE Ok(PushAll(map, key.val, [i \in 1..Len(notes) |-> texts[i].val]))
    ELSE IF Len(msg) < 5 THEN Err("panic")
    ELSE LET bound == bound_str(bounds(param.val.val), <<msg[5]>>, chk) IN
         IF bound.ok
         THEN Ok(Insert(map, GlobalsToString(param.val.val, chk).val, <<bound.val>>))
         ELSE Ok(map)

\* the closure of Device::sysex_receiver connected by the BeatStep device:
\* the header is BEATSTEP and the decoder is decode of devices/beatstep.rs
beatstep_receiver(message, map, chk) ==
    IF message = <<>> THEN Err("panic")
    ELSE IF /\ message[1] = SYSEX_BEGIN
            /\ message[Len(message)] = SYSEX_END
            /\ StartsWith(Tail(message), BEATSTEP)
         THEN beatstep_decode(SubSeq(message, Len(BEATSTEP) + 2, Len(message) - 1), map, chk)
         ELSE Ok(map)

-----------------------------------------------------------------------------
(* The AST and its serializer (parse.rs) *)

Forms == {"Update", "Request", "Reply"}

\* a schema Sysex that has the same bytes in every form
SysexDefault(bytes) == [f \in Forms |-> bytes]

\* Sysex::slice(form): the bytes the schema declares for the form
slice(sysex_of, frm) == sysex_of[frm]

\* enum Token: kind is the variant; sysex_of the Sysex of the schema item it
\* refers to; idx the u8 or isize it carries; notes the Vec<MidiNote>
Token(kind, sysex_of, idx, notes) ==
    [kind |-> kind, sysex_of |-> sysex_of, idx |-> idx, notes |-> notes]

TokenSysex == Token("Sysex", SysexDefault(<<>>), 0, <<>>)

\* Buffer::default()
BufferDefault == [head |-> <<>>, tail |-> <<>>]

Reverse(s) == [i \in 1..Len(s) |-> s[Len(s) + 1 - i]]

\* a conversion that drops the tail of the buffer
BufferIntoHead(buffer) == buffer.head

\* impl Into<Vec<u8>> for Buffer: the head, then the tail reversed
BufferInto(buffer) == buffer.head \o Reverse(buffer.tail)

\* Token::to_sysex(&self, buffer, form): the buffer after the call
Token_to_sysex(token, buffer, frm) ==
    CASE token.kind = "Sysex" ->
           [head |-> buffer.head \o <<SYSEX_BEGIN>>, tail |-> buffer.tail \o <<SYSEX_END>>]
      [] token.kind \in {"Vendor", "Control", "Value"} ->
           [buffer EXCEPT !.head = @ \o slice(token.sysex_of, frm)]
      [] token.kind \in {"Device", "IndexedControl"} ->
           [buffer EXCEPT !.head = @ \o slice(token.sysex_of, frm) \o <<token.idx>>]
      [] token.kind = "InRange" ->
           [buffer EXCEPT !.head = @ \o <<token.idx % U8>>]
      [] token.kind = "MidiNotes" ->
           [buffer EXCEPT !.head = @ \o <<token.idx, Len(token.notes) % U8>> \o token.notes]

RECURSIVE to_sysex_inner_reversed(_, _, _, _)
\* a walk that visits the children of a fork from the last to the first
to_sysex_inner_reversed(tree, node_id, buffer, frm) ==
    LET buf == Token_to_sysex(tree[node_id].token, buffer, frm)
        children == tree[node_id].children
    IN IF children # <<>>
       THEN Concat([c \in 1..Len(children) |->
                       to_sysex_inner_reversed(tree, children[Len(children) + 1 - c], buf, frm)])
       ELSE <<BufferInto(buf)>>

RECURSIVE walk_shared(_, _, _, _)
RECURSIVE walk_children_shared(_, _, _, _)
\* a walk in which the children of a fork write into one buffer, each
\* starting from the buffer as its elder sibling left it
walk_shared(tree, node_id, buffer, frm) ==
    LET buf == Token_to_sysex(tree[node_id].token, buffer, frm)
        children == tree[node_id].children
    IN IF children # <<>>
       THEN walk_children_shared(tree, children, buf, frm)
       ELSE [messages |-> <<BufferInto(buf)>>, buffer |-> buf]

walk_children_shared(tree, children, buffer, frm) ==
    IF children = <<>> THEN [messages |-> <<>>, buffer |-> buffer]
    ELSE LET first == walk_shared(tree, Head(children), buffer, frm)
             rest == walk_children_shared(tree, Tail(children), first.buffer, frm)
         IN [messages |-> first.messages \o rest.messages, buffer |-> rest.buffer]

to_sysex_inner_shared(tree, node_id, buffer, frm) ==
    walk_shared(tree, node_id, buffer, frm).messages

RECURSIVE to_sysex_inner(_, _, _, _)
\* AST::to_sysex_inner: the messages pushed, in order, by the walk from
\* node_id; the buffer is taken by value, so each child of a fork starts
\* from a copy of the buffer as it is after the token of node_id
to_sysex_inner(tree, node_id, buffer, frm) ==
    LET buf == Token_to_sysex(tree[node_id].token, buffer, frm)
        children == tree[node_id].children
    IN IF children # <<>>
       THEN IF children[1] = children[Len(children)]
            THEN to_sysex_inner(tree, children[1], buf, frm)
            ELSE Concat([c \in 1..Len(children) |-> to_sysex_inner(tree, children[c], buf, frm)])
       ELSE <<BufferInto(buf)>>

\* AST::to_sysex
to_sysex(tree, frm) == to_sysex_inner(tree, 1, BufferDefault, frm)

\* AST::new: an arena holding the root, a Sysex token
AST_new == << [token |-> TokenSysex, parent |-> 0, children |-> <<>>] >>

\* AST::push_child: a new node is appended as the last child of node
push_child(tree, node, token) ==
    Append([tree EXCEPT ![node].children = Append(@, Len(tree) + 1)],
           [token |-> token, parent |-> node, children |-> <<>>])

-----------------------------------------------------------------------------
(* The wire decoder: the cursor PCTX and SysexReply (parse.rs) *)

\* struct PCTX
PCTX(buffer, at) == [message |-> buffer, pos |-> at]

\* &self.message[self.pos..]; pos never passes the end of the message (each
\* operation below advances it only over bytes it has found), so the slice
\* is always in range
Rest(ctx) == SubSeq(ctx.message, ctx.pos + 1, Len(ctx.message))

\* a call on a cursor: the cursor after the call and what the call returned
Called(ctx, ret) == [ctx |-> ctx, ret |-> ret]

\* PCTX::accept
accept(ctx, token) ==
    IF StartsWith(Rest(ctx), token)
    THEN Called([ctx EXCEPT !.pos = @ + Len(token)], TRUE)
    ELSE Called(ctx, FALSE)

\* PCTX::expect
expect(ctx, token) ==
    LET done == accept(ctx, token) IN
    Called(done.ctx, IF done.ret THEN Ok(<<>>) ELSE Err("Expected"))

\* PCTX::take: Ok(slice.to_vec()) copies the whole rest of the message
take(ctx, length) ==
    IF Len(Rest(ctx)) < length THEN Called(ctx, Err("ShortRead"))
    ELSE Called([ctx EXCEPT !.pos = @ + length], Ok(Rest(ctx)))

\* PCTX::next_byte
next_byte(ctx) ==
    IF ctx.pos >= Len(ctx.message) THEN Called(ctx, Err("ShortRead"))
    ELSE Called([ctx EXCEPT !.pos = @ + 1], Ok(ctx.message[ctx.pos + 1]))

\* struct Vendor of the schema: a name and the Sysex of its prefix
Vendor(name, sysex_of) == [name |-> name, sysex_of |-> sysex_of]

\* a decoding step of SysexReply: the AST and the cursor after it, and the
\* Result it returned
Decoded(tree, ctx, ret) == [ast |-> tree, ctx |-> ctx, ret |-> ret]

\* SysexReply::nodes
SysexReply_nodes(tree, node, ctx, frm) == Decoded(tree, ctx, Ok(<<>>))

\* a vendor loop in which the last vendor whose prefix matches is taken
SysexReply_vendor_last(tree, vs, node, ctx, frm) ==
    LET matches == { i \in 1..Len(vs) : accept(ctx, slice(vs[i].sysex_of, frm)).ret } IN
    IF matches = {} THEN Decoded(tree, ctx, Err("UnknownVendor"))
    ELSE LET v_schema == vs[CHOOSE i \in matches : \A j \in matches : j <= i]
         IN SysexReply_nodes(push_child(tree, node, Token("Vendor", v_schema.sysex_of, 0, <<>>)),
                             Len(tree) + 1, accept(ctx, slice(v_schema.sysex_of, frm)).ctx, frm)

\* SysexReply::vendor: accept leaves the cursor where it was on a mismatch,
\* so the loop returns at the first vendor of vs whose prefix is at the cursor
SysexReply_vendor(tree, vs, node, ctx, frm) ==
    LET matches == { i \in 1..Len(vs) : accept(ctx, slice(vs[i].sysex_of, frm)).ret } IN
    IF matches = {} THEN Decoded(tree, ctx, Err("UnknownVendor"))
    ELSE LET v_schema == vs[CHOOSE i \in matches : \A j \in matches : i <= j]
         IN SysexReply_nodes(push_child(tree, node, Token("Vendor", v_schema.sysex_of, 0, <<>>)),
                             Len(tree) + 1, accept(ctx, slice(v_schema.sysex_of, frm)).ctx, frm)

\* a parse that adds a node for the frame before it reads it
SysexReply_parse_eager(tree, vs, buffer) ==
    LET grown == push_child(tree, 1, TokenSysex) IN
    IF buffer = <<>> THEN Decoded(grown, PCTX(buffer, 0), Err("EmptyMessage"))
    ELSE LET begun == expect(PCTX(buffer, 0), <<SYSEX_BEGIN>>) IN
         IF ~begun.ret.ok THEN Decoded(grown, begun.ctx, begun.ret)
         ELSE SysexReply_vendor(grown, vs, 1, begun.ctx, "Reply")

\* SysexReply::parse, with the cursor it leaves: the root of the AST is node 1
SysexReply_parse(tree, vs, buffer) ==
    IF buffer = <<>> THEN Decoded(tree, PCTX(buffer, 0), Err("EmptyMessage"))
    ELSE LET begun == expect(PCTX(buffer, 0), <<SYSEX_BEGIN>>) IN
         IF ~begun.ret.ok THEN Decoded(tree, begun.ctx, begun.ret)
         ELSE SysexReply_vendor(tree, vs, 1, begun.ctx, "Reply")

-----------------------------------------------------------------------------
(* The schema-driven key parser (schema.rs) *)

\* usize::from_str: a non-empty run of decimal digits
UsizeFromStr(s) ==
    IF s = <<>> \/ \E i \in 1..Len(s) : ~IsDigit(s[i]) THEN Err("ParseIntError")
    ELSE Ok(ParseNat(s))

\* struct Parameter: the index range and the modes a control declares
Parameter(name, range, modes) == [name |-> name, range |-> range, modes |-> modes]

\* Device.parameters: Seq as the schema of the MicroBrute declares it, a plain
\* control, and controls that declare modes, with and without an index range
SchemaParameters ==
    << Parameter(<<"Seq">>, Some([lo |-> 1, hi |-> 8]), None),
       Parameter(<<"Gate">>, None, None),
       Parameter(<<"Pad">>, Some([lo |-> 1, hi |-> 16]), Some({<<"Note">>})),
       Parameter(<<"Ctl">>, None, Some({<<"Note">>})) >>

\* self.parameters.get(name)
parameters_get(parameters, name) ==
    IF \E i \in 1..Len(parameters) : parameters[i].name = name
    THEN Some(parameters[CHOOSE i \in 1..Len(parameters) : parameters[i].name = name])
    ELSE None

\* Vec::get
VecGet(v, i) == IF i + 1 <= Len(v) THEN Some(v[i + 1]) ELSE None

\* Device::parse_key
parse_key(parameters, key) ==
    LET seq_parts == Split(key, "/")
        name == seq_parts[1]
        mode_parts == Split(key, ":")
        shape == <<Len(seq_parts), Len(mode_parts)>>
        resplit == Split(seq_parts[2], ":")
        index_str == CASE shape = <<2, 1>> -> VecGet(seq_parts, 1)
                   [] shape = <<2, 2>> -> VecGet(resplit, 0)
                   [] OTHER -> None
        mode == CASE shape = <<1, 2>> -> VecGet(mode_parts, 1)
                  [] shape = <<2, 2>> -> VecGet(resplit, 1)
                  [] OTHER -> None
        param == parameters_get(parameters, name)
        index_val == IF index_str.ok THEN UsizeFromStr(index_str.val) ELSE Ok(0)
    IN IF shape \notin {<<1, 1>>, <<2, 1>>, <<1, 2>>, <<2, 2>>} THEN Err("UnknownParameter")
       ELSE IF ~param.ok THEN Err("UnknownParameter")
       ELSE IF ~index_val.ok THEN index_val
       ELSE IF ~( \/ /\ index_str.ok /\ param.val.range.ok
                     /\ index_val.val >= param.val.range.val.lo
                     /\ index_val.val <= param.val.range.val.hi
                  \/ ~index_str.ok /\ ~param.val.range.ok )
            THEN Err("BadIndexParameter")
       ELSE IF ~( \/ mode.ok /\ param.val.modes.ok /\ mode.val \in param.val.modes.val
                  \/ ~mode.ok /\ ~param.val.modes.ok )
            THEN Err("BadModeParameter")
       ELSE Ok([name |-> name,
                index |-> IF index_str.ok THEN Some(index_val.val) ELSE None,
                mode |-> mode])

-----------------------------------------------------------------------------
(* The schema-driven value parser (schema.rs) *)

\* enum Bounds: Values is the LinkedHashMap as its entries <<name, byte>> in
\* insertion order; struct Range and struct NoteSeq carry an Option offset
Values(values) == [kind |-> "Values", values |-> values]
SchemaRange(lo, hi, offset) == [kind |-> "Range", lo |-> lo, hi |-> hi, offset |-> offset]
SchemaNoteSeq(max_len, offset) == [kind |-> "NoteSeq", max_len |-> max_len, offset |-> offset]

\* u8 as i8
AsI8(x) == IF x >= 128 THEN x - U8 ELSE x

\* Bounds::convert, Values arm: values.get(value)
convert_values(b, value) ==
    IF \E i \in 1..Len(b.values) : b.values[i][1] = value
    THEN Ok(<<b.values[CHOOSE i \in 1..Len(b.values) : b.values[i][1] = value][2]>>)
    ELSE Err("UnknownValue")

\* Bounds::convert, Range arm: the usize subtraction traps or wraps below the
\* offset, and the result is cut to a byte
convert_range(b, value, chk) ==
    LET val == UsizeFromStr(value) IN
    IF ~val.ok THEN val
    ELSE IF val.val >= b.lo /\ val.val <= b.hi
         THEN IF b.offset.ok
              THEN (IF val.val < b.offset.val /\ chk THEN Err("panic")
                    ELSE Ok(<<(val.val - b.offset.val) % U8>>))
              ELSE Ok(<<val.val % U8>>)
         ELSE Err("ValueOutOfBound")

\* Bounds::convert, note sequence arm: the text is split at the commas, each
\* piece goes through MidiNote::from_str, and the offset is added as an i8
\* (the addition traps or wraps outside -128..127); max_len only sizes the
\* vector
convert_noteseq(b, value, chk) ==
    LET offset == IF b.offset.ok THEN b.offset.val ELSE 0
        pieces == Split(value, ",")
        n == [i \in 1..Len(pieces) |-> MidiNoteFromStr(pieces[i])]
        sum(i) == AsI8(n[i].val % U8) + offset
        stops(i) == ~n[i].ok \/ ((sum(i) > 127 \/ sum(i) < -128) /\ chk)
    IN IF \E i \in 1..Len(pieces) : stops(i)
       THEN LET i == CHOOSE i \in 1..Len(pieces) :
                       stops(i) /\ \A j \in 1..(i - 1) : ~stops(j)
            IN IF ~n[i].ok THEN n[i] ELSE Err("panic")
       ELSE Ok([i \in 1..Len(pieces) |-> (sum(i) + U8) % U8])

\* Bounds::convert
convert(b, value, chk) ==
    CASE b.kind = "Values" -> convert_values(b, value)
      [] b.kind = "Range" -> convert_range(b, value, chk)
      [] b.kind = "NoteSeq" -> convert_noteseq(b, value, chk)

\* struct Field, and the QueryKey parse_value reads: the bounds of the
\* parameter and the fields of the mode of the key, each an Option
Field(name, field_bounds) == [name |-> name, bounds |-> field_bounds]
QueryKey(name, param_bounds, fields) == [name |-> name, bounds |-> param_bounds, fields |-> fields]

\* the loop of parse_value calls b.convert(value) for the bounds in declared
\* order; convert is a pure function, so the results of all the calls are
\* laid out here and the loop reads the prefix it reaches
Converted(bs, value, chk) == [i \in 1..Len(bs) |-> convert(bs[i], value, chk)]

\* a loop in which the last bound whose convert returns Ok wins
FirstStop_last(results) ==
    LET stops(i) == results[i].ok \/ results[i].err = "panic" IN
    IF \E i \in 1..Len(results) : stops(i)
    THEN CHOOSE i \in 1..Len(results) : stops(i) /\ \A j \in (i + 1)..Len(results) : ~stops(j)
    ELSE 0

\* the position of the first bound whose convert returns Ok or traps, 0 if
\* every bound returns an error
FirstStop(results) ==
    LET stops(i) == results[i].ok \/ results[i].err = "panic" IN
    IF \E i \in 1..Len(results) : stops(i)
    THEN CHOOSE i \in 1..Len(results) : stops(i) /\ \A j \in 1..(i - 1) : ~stops(j)
    ELSE 0

\* the calls of convert the loop of parse_value makes, with their results
Tried(results) ==
    LET stop == FirstStop(results) IN
    SubSeq(results, 1, IF stop = 0 THEN Len(results) ELSE stop)

\* for b in bounds { if let Ok(v) = b.convert(value) { return Ok(..) } }
\* followed by the final Err of parse_value
try_bounds(results, kind, field_name) ==
    LET stop == FirstStop(results) IN
    IF stop = 0 THEN Err("ValueOutOfBound")
    ELSE IF ~results[stop].ok THEN Err("panic")
    ELSE Ok([kind |-> kind, field |-> field_name, bytes |-> results[stop].val])

\* the list of bounds parse_value selects by the shape of the value and the
\* mode of the key: QueryKey::bounds(Some(field_name)) or QueryKey::bounds(None)
selected_bounds(key, value) ==
    LET parts == Split(value, "=") IN
    IF Len(parts) = 2 /\ key.fields.ok
    THEN IF \E i \in 1..Len(key.fields.val) : key.fields.val[i].name = parts[1]
         THEN Ok(key.fields.val[CHOOSE i \in 1..Len(key.fields.val) :
                                    key.fields.val[i].name = parts[1]].bounds)
         ELSE Err("BadField")
    ELSE IF Len(parts) = 1 /\ ~key.fields.ok
    THEN (IF key.bounds.ok THEN Ok(key.bounds.val) ELSE Err("BadSchema"))
    ELSE Err("ValueOutOfBound")

\* QueryKey::parse_value
parse_value(key, value, chk) ==
    LET parts == Split(value, "=")
        bs == selected_bounds(key, value)
    IN IF ~bs.ok THEN bs
       ELSE IF Len(parts) = 2
       THEN try_bounds(Converted(bs.val, parts[2], chk), "FieldValue", parts[1])
       ELSE try_bounds(Converted(bs.val, value, chk), "ParamValue", <<>>)

-----------------------------------------------------------------------------
(* SpecCodec: a value is typed, encoded, and a reply byte is decoded *)

\* the variables of the parts that are not running keep these values
CodecIdle ==
    /\ c_param = [name |-> "Gate", idx |-> 0]
    /\ c_value = 0
    /\ codes = [ok |-> FALSE, val |-> <<>>, err |-> ""]
    /\ wire = 0
    /\ shown = [ok |-> FALSE, val |-> <<>>]
    /\ c_pc = "off"

DeviceIdle ==
    /\ cmd = [op |-> "none", params |-> <<>>, values |-> <<>>, fail_at |-> 0]
    /\ msg_id = 0
    /\ sent = <<>>
    /\ outcome = [ok |-> TRUE, val |-> <<>>, err |-> ""]
    /\ sysex_counter = 0
    /\ d_pc = "off"

RecvIdle ==
    /\ rx = <<>>
    /\ result_map = <<>>
    /\ received_values = <<>>
    /\ n_recv = 0
    /\ r_pc = "off"

AstIdle ==
    /\ arena = <<>>
    /\ form = "Reply"
    /\ messages = <<>>
    /\ a_pc = "off"

KeyIdle ==
    /\ param_key = <<>>
    /\ parsed = [ok |-> FALSE, val |-> <<>>, err |-> ""]
    /\ k_pc = "off"

NoteIdle ==
    /\ n_text = <<>>
    /\ n_byte = 0
    /\ n_note = [ok |-> FALSE, val |-> <<>>, err |-> ""]
    /\ n_shown = [ok |-> FALSE, val |-> <<>>, err |-> ""]
    /\ n_pc = "off"

ValueIdle ==
    /\ v_key = <<>>
    /\ v_text = <<>>
    /\ v_tried = <<>>
    /\ v_value = [ok |-> FALSE, val |-> <<>>, err |-> ""]
    /\ v_pc = "off"

DecodeIdle ==
    /\ vendors = <<>>
    /\ p_message = <<>>
    /\ p_pos = 0
    /\ p_op = [name |-> "none", arg |-> <<>>]
    /\ p_result = [ok |-> FALSE, val |-> <<>>, err |-> ""]
    /\ reply_ast = <<>>
    /\ p_frames = <<>>

CacheIdle ==
    /\ mb_state = <<>>
    /\ mb_counter = 0
    /\ mb_out = <<>>
    /\ mb_call = <<>>
    /\ mb_result = [ok |-> FALSE, val |-> <<>>, err |-> ""]

InitCodec ==
    /\ unit = "codec"
    /\ checked \in BOOLEAN
    /\ DeviceIdle /\ RecvIdle /\ AstIdle /\ KeyIdle /\ NoteIdle /\ ValueIdle /\ DecodeIdle /\ CacheIdle
    /\ c_param \in RangeParams
    /\ c_value \in 0..MaxDisplay
    /\ codes = Err("")
    /\ wire = 0
    /\ shown = None
    /\ c_pc = "input"

\* MicroBruteDevice::update up to the conversion of its value arguments
Encode ==
    /\ c_pc = "input"
    /\ codes' = bound_codes(bounds(c_param), <<to_string(c_value)>>, bound_reqs(c_param), checked)
    /\ c_pc' = "encoded"
    /\ UNCHANGED <<unit, checked, c_param, c_value, wire, shown, deviceVars, recvVars, astVars, keyVars, noteVars, valueVars, decodeVars, cacheVars>>

\* main, Command::Set: the value of a Range parameter is encoded for send_value
EncodeSet ==
    /\ c_pc = "input"
    /\ bounds(c_param).kind = "Range"
    /\ codes' = main_set_range(bounds(c_param).offset, to_string(c_value), checked)
    /\ c_pc' = "encoded"
    /\ UNCHANGED <<unit, checked, c_param, c_value, wire, shown, deviceVars, recvVars, astVars, keyVars, noteVars, valueVars, decodeVars, cacheVars>>

\* decode of a reply for c_param carrying value byte w
Decode ==
    /\ c_pc = "encoded"
    /\ \E w \in 0..MaxWire :
        /\ wire' = w
        /\ shown' = bound_str(bounds(c_param), <<w>>, checked)
    /\ c_pc' = "decoded"
    /\ UNCHANGED <<unit, checked, c_param, c_value, codes, deviceVars, recvVars, astVars, keyVars, noteVars, valueVars, decodeVars, cacheVars>>

NextCodec == Encode \/ EncodeSet \/ Decode

SpecCodec == InitCodec /\ [][NextCodec]_vars

-----------------------------------------------------------------------------
(* SpecValues: a value name is encoded by either converter, and a reply byte
   is decoded, for the parameters with Discrete bounds *)

DiscreteParams ==
    { Global(GlobalNames[i]) : i \in { j \in 1..Len(GlobalNames) :
                                        bounds(Global(GlobalNames[j])).kind = "Discrete" } }

\* the names the tables declare, a name none declares, and the empty text
ValueNames ==
    UNION { { bounds(p).values[i][2] : i \in 1..Len(bounds(p).values) } : p \in DiscreteParams }
        \cup { <<"Bogus">>, <<>> }

\* the bytes up to MaxWire and the bytes the tables declare
ValueBytes ==
    (0..MaxWire) \cup
    UNION { { bounds(p).values[i][1] : i \in 1..Len(bounds(p).values) } : p \in DiscreteParams }

\* the table of a Discrete bound as the Values map of the schema
ValuesOf(b) == Values([i \in 1..Len(b.values) |-> <<b.values[i][2], b.values[i][1]>>])

InitValues ==
    /\ unit = "values"
    /\ checked \in BOOLEAN
    /\ DeviceIdle /\ RecvIdle /\ AstIdle /\ KeyIdle /\ NoteIdle /\ ValueIdle /\ DecodeIdle /\ CacheIdle
    /\ c_param \in DiscreteParams
    /\ c_value \in ValueNames
    /\ codes = Err("")
    /\ wire = 0
    /\ shown = None
    /\ c_pc = "input"

\* bound_codes(bounds(c_param), &[c_value], bound_reqs(c_param))
EncodeName ==
    /\ c_pc = "input"
    /\ codes' = bound_codes(bounds(c_param), <<c_value>>, bound_reqs(c_param), checked)
    /\ c_pc' = "encoded"
    /\ UNCHANGED <<unit, checked, c_param, c_value, wire, shown, deviceVars, recvVars, astVars, keyVars, noteVars, valueVars, decodeVars, cacheVars>>

\* Bounds::Values(table).convert(c_value)
ConvertName ==
    /\ c_pc = "input"
    /\ codes' = convert(ValuesOf(bounds(c_param)), c_value, checked)
    /\ c_pc' = "converted"
    /\ UNCHANGED <<unit, checked, c_param, c_value, wire, shown, deviceVars, recvVars, astVars, keyVars, noteVars, valueVars, decodeVars, cacheVars>>

\* bound_str(bounds(c_param), &[w])
DecodeByte ==
    /\ c_pc \in {"encoded", "converted"}
    /\ \E w \in ValueBytes :
        /\ wire' = w
        /\ shown' = bound_str(bounds(c_param), <<w>>, checked)
    /\ c_pc' = "decoded"
    /\ UNCHANGED <<unit, checked, c_param, c_value, codes, deviceVars, recvVars, astVars, keyVars, noteVars, valueVars, decodeVars, cacheVars>>

NextValues == EncodeName \/ ConvertName \/ DecodeByte

SpecValues == InitValues /\ [][NextValues]_vars

-----------------------------------------------------------------------------
(* SpecDevice: one command is given to a connected MicroBruteDevice *)

\* the key texts a command may name
DeviceKeys == { <<"Gate">>, <<"MidiRecvChan">>, <<"Gate", "/", "3">>, <<"Bogus">> }
              \cup { <<"Seq", "/">> \o to_string(i) : i \in 1..9 }

NoteTexts == << <<"C", "0">>, <<"C", "#", "1">>, <<"B", "4">>, <<"A", "#", "2">>, <<"F", "3">> >>

\* n note texts, taken in turn from NoteTexts starting at its k-th
NoteList(n, k) == [i \in 1..n |-> NoteTexts[((i + k - 2) % Len(NoteTexts)) + 1]]

NoteLens == {0, 1, 2, 31, 32, 33, 40, 64, 65}

ValueLists ==
    { <<>>, << <<"Short">> >>, << <<"Bogus">> >>, << <<"0">> >>, << <<"1">> >>,
      << <<"1", "7">> >>,
      << <<"Short">>, <<"Long">> >>, << <<"C", "0">>, <<"H", "1">> >> }
    \cup { NoteList(n, k) : n \in NoteLens, k \in 1..2 }

ParamLists == UNION { [1..n -> DeviceKeys] : n \in 0..MaxParams }

\* the counter after connect (identify sent one message) and 0, 126 or 254
\* earlier messages on the connection
InitMsgIds == {1, 127, 255}

InitDevice ==
    /\ unit = "device"
    /\ checked \in BOOLEAN
    /\ CodecIdle /\ RecvIdle /\ AstIdle /\ KeyIdle /\ NoteIdle /\ ValueIdle /\ DecodeIdle /\ CacheIdle
    /\ cmd = [op |-> "none", params |-> <<>>, values |-> <<>>, fail_at |-> 0]
    /\ msg_id \in InitMsgIds
    /\ sent = <<>>
    /\ outcome = Ok(<<>>)
    /\ sysex_counter = 0
    /\ d_pc = "idle"

Ran(st) ==
    /\ msg_id' = st.msg_id
    /\ sent' = st.sent
    /\ outcome' = st.outcome
    /\ d_pc' = "done"

\* MicroBruteDevice::query(params), until it waits for the replies
Query ==
    /\ d_pc = "idle"
    /\ \E params \in ParamLists, fail_at \in 0..MaxFailAt :
        /\ cmd' = [op |-> "query", params |-> params, values |-> <<>>, fail_at |-> fail_at]
        /\ Ran(query(Conn(msg_id, fail_at), params, checked))
    /\ UNCHANGED <<unit, checked, sysex_counter, codecVars, recvVars, astVars, keyVars, noteVars, valueVars, decodeVars, cacheVars>>

\* MicroBruteDevice::update(param_str, value_ids)
Update ==
    /\ d_pc = "idle"
    /\ \E param_str \in DeviceKeys, value_ids \in ValueLists, fail_at \in 0..MaxFailAt :
        /\ cmd' = [op |-> "update", params |-> <<param_str>>, values |-> value_ids,
                   fail_at |-> fail_at]
        /\ Ran(update(Conn(msg_id, fail_at), param_str, value_ids, checked))
    /\ UNCHANGED <<unit, checked, sysex_counter, codecVars, recvVars, astVars, keyVars, noteVars, valueVars, decodeVars, cacheVars>>

\* main, Command::Get: a fresh SysexConnection runs the closure
CommandGet ==
    /\ d_pc = "idle"
    /\ \E params \in ParamLists, fail_at \in 0..MaxFailAt :
        /\ cmd' = [op |-> "get", params |-> params, values |-> <<>>, fail_at |-> fail_at]
        /\ LET st == command_get(Conn(sysex_counter, fail_at), DescriptorParams, params)
           IN /\ sysex_counter' = st.msg_id
              /\ sent' = st.sent
              /\ outcome' = st.outcome
    /\ d_pc' = "done"
    /\ UNCHANGED <<unit, checked, msg_id, codecVars, recvVars, astVars, keyVars, noteVars, valueVars, decodeVars, cacheVars>>

\* main, Command::Set: a fresh SysexConnection sends one value
CommandSet ==
    /\ d_pc = "idle"
    /\ \E param_name \in DeviceKeys, value_ids \in ValueLists, fail_at \in 0..MaxFailAt :
        /\ Len(value_ids) = 1
        /\ cmd' = [op |-> "set", params |-> <<param_name>>, values |-> value_ids,
                   fail_at |-> fail_at]
        /\ LET st == command_set(Conn(sysex_counter, fail_at), DescriptorParams,
                                 param_name, value_ids[1], checked)
           IN /\ sysex_counter' = st.msg_id
              /\ sent' = st.sent
              /\ outcome' = st.outcome
    /\ d_pc' = "done"
    /\ UNCHANGED <<unit, checked, msg_id, codecVars, recvVars, astVars, keyVars, noteVars, valueVars, decodeVars, cacheVars>>

NextDevice == Query \/ Update \/ CommandGet \/ CommandSet

SpecDevice == InitDevice /\ [][NextDevice]_vars

-----------------------------------------------------------------------------
(* SpecReceive: buffers arrive at a connected receive callback *)

MaxRecv == 2

\* a reply as the MicroBrute frames it
Reply(body) == <<SYSEX_BEGIN>> \o MICROBRUTE \o body \o <<SYSEX_END>>

\* Gate = 2 and a block of sequence 1: the bodies that arrive truncated too
TruncatedBodies ==
    { <<1, 89, 1, 54, 2>>,
      <<1, 91, 35, 58, 0, 0, 32, 48, 127, 10, 0, 60>> }

\* MidiRecvChan = 3, MidiRecvChan with value byte 0, an unknown control code,
\* Gate = 1, the blocks of sequence 2 at offsets 0x20 and 0x00, a block with
\* a note byte below C0 + 12, a block of sequence index 255, a block of each
\* of the sequences 3 to 8
WholeBodies ==
    { <<1, 90, 1, 5, 3>>, <<1, 90, 1, 5, 0>>, <<1, 92, 1, 99, 1>>, <<1, 93, 1, 54, 1>>,
      <<1, 94, 35, 58, 1, 32, 32, 49>>, <<1, 97, 35, 58, 1, 0, 32, 50, 52>>,
      <<1, 95, 35, 58, 0, 0, 32, 30>>,
      <<1, 96, 35, 58, 255, 0, 32, 48>> }
    \cup { <<1, 98, 35, 58, idx, 0, 32, 48>> : idx \in 2..7 }

Prefixes(s) == { SubSeq(s, 1, n) : n \in 0..Len(s) }

\* the buffers the MIDI input may deliver
Frames ==
    { Reply(b) : b \in WholeBodies }
    \cup { Reply(p) : p \in UNION { Prefixes(b) : b \in TruncatedBodies } }
    \cup UNION { Prefixes(Reply(b)) : b \in TruncatedBodies }
    \cup { <<240, 0, 32, 41, 2, 1, 89, 1, 54, 2, 247>>, <<54, 2, 1>>, <<247>> }

InitReceive ==
    /\ unit = "receive"
    /\ checked \in BOOLEAN
    /\ CodecIdle /\ DeviceIdle /\ AstIdle /\ KeyIdle /\ NoteIdle /\ ValueIdle /\ DecodeIdle /\ CacheIdle
    /\ rx = <<>>
    /\ result_map = <<>>
    /\ received_values = <<>>
    /\ n_recv = 0
    /\ r_pc \in {"sysex_receiver", "init_receiver", "beatstep_receiver"}

\* a buffer arrives at the callback connected by sysex_receiver, whose
\* decoder is decode of devices/microbrute.rs
Receive ==
    /\ r_pc = "sysex_receiver"
    /\ n_recv < MaxRecv
    /\ \E message \in Frames :
        LET r == sysex_receiver(message, MICROBRUTE, result_map, checked) IN
        /\ rx' = message
        /\ result_map' = IF r.ok THEN r.val ELSE result_map
        /\ r_pc' = IF r.ok THEN r_pc ELSE "panicked"
    /\ n_recv' = n_recv + 1
    /\ UNCHANGED <<unit, checked, received_values, codecVars, deviceVars, astVars, keyVars, noteVars, valueVars, decodeVars, cacheVars>>

\* a buffer arrives at the callback connected by init_receiver
ReceiveValue ==
    /\ r_pc = "init_receiver"
    /\ n_recv < MaxRecv
    /\ \E message \in Frames :
        LET r == init_receiver(message, 5, received_values) IN
        /\ rx' = message
        /\ received_values' = IF r.ok THEN r.val ELSE received_values
        /\ r_pc' = IF r.ok THEN r_pc ELSE "panicked"
    /\ n_recv' = n_recv + 1
    /\ UNCHANGED <<unit, checked, result_map, codecVars, deviceVars, astVars, keyVars, noteVars, valueVars, decodeVars, cacheVars>>

\* the buffers a BeatStep may deliver: the same bodies behind its header
BeatStepFrames ==
    { <<SYSEX_BEGIN>> \o BEATSTEP \o b \o <<SYSEX_END>> : b \in WholeBodies \cup TruncatedBodies }

\* a buffer arrives at the callback connected by the BeatStep device
ReceiveBeatStep ==
    /\ r_pc = "beatstep_receiver"
    /\ n_recv < MaxRecv
    /\ \E message \in BeatStepFrames :
        LET r == beatstep_receiver(message, result_map, checked) IN
        /\ rx' = message
        /\ result_map' = IF r.ok THEN r.val ELSE result_map
        /\ r_pc' = IF r.ok THEN r_pc ELSE "panicked"
    /\ n_recv' = n_recv + 1
    /\ UNCHANGED <<unit, checked, received_values, codecVars, deviceVars, astVars, keyVars, noteVars, valueVars, decodeVars, cacheVars>>

\* SysexReceiver::close_wait, RxHandle::close: the map is handed to the caller
CloseWait ==
    /\ r_pc \in {"sysex_receiver", "init_receiver", "beatstep_receiver"}
    /\ r_pc' = "closed"
    /\ UNCHANGED <<unit, checked, rx, result_map, received_values, n_recv,
                   codecVars, deviceVars, astVars, keyVars, noteVars, valueVars, decodeVars, cacheVars>>

NextReceive == Receive \/ ReceiveValue \/ ReceiveBeatStep \/ CloseWait

SpecReceive == InitReceive /\ [][NextReceive]_vars

-----------------------------------------------------------------------------
(* SpecAst: a command tree is built node by node, then serialized *)

MaxNodes == 6

\* the tokens a node of each kind may get as children, as the schema nests
\* them: vendors under the root, devices under a vendor, controls under a
\* device, a value under a control
ChildTokens(kind) ==
    CASE kind = "Sysex" ->
           { Token("Vendor", SysexDefault(<<0, 32, 107>>), 0, <<>>),
             Token("Vendor", SysexDefault(<<126>>), 0, <<>>) }
      [] kind = "Vendor" ->
           { Token("Device", SysexDefault(<<5>>), 1, <<>>) }
      [] kind = "Device" ->
           { Token("Control", [Update |-> <<1, 54>>, Request |-> <<1, 55>>, Reply |-> <<1, 54>>],
                   0, <<>>),
             Token("IndexedControl",
                   [Update |-> <<35, 58>>, Request |-> <<35, 59>>, Reply |-> <<35, 58>>],
                   2, <<>>) }
      [] kind \in {"Control", "IndexedControl"} ->
           { Token("Value", SysexDefault(<<2>>), 0, <<>>),
             Token("InRange", SysexDefault(<<>>), 300, <<>>),
             Token("MidiNotes", SysexDefault(<<>>), 32, <<48, 127>>) }
      [] OTHER -> {}

InitAst ==
    /\ unit = "ast"
    /\ checked = FALSE
    /\ CodecIdle /\ DeviceIdle /\ RecvIdle /\ KeyIdle /\ NoteIdle /\ ValueIdle /\ DecodeIdle /\ CacheIdle
    /\ arena = AST_new
    /\ form = "Reply"
    /\ messages = <<>>
    /\ a_pc = "build"

\* self.ast.push_child(node, token)
PushChild ==
    /\ a_pc = "build"
    /\ Len(arena) < MaxNodes
    /\ \E node \in 1..Len(arena) :
        \E token \in ChildTokens(arena[node].token.kind) :
            arena' = push_child(arena, node, token)
    /\ UNCHANGED <<unit, checked, form, messages, a_pc, codecVars, deviceVars, recvVars, keyVars, noteVars, valueVars, decodeVars, cacheVars>>

\* ast.to_sysex(&mut msg_id, form)
ToSysex ==
    /\ a_pc = "build"
    /\ \E f \in Forms :
        /\ form' = f
        /\ messages' = to_sysex(arena, f)
    /\ a_pc' = "done"
    /\ UNCHANGED <<unit, checked, arena, codecVars, deviceVars, recvVars, keyVars, noteVars, valueVars, decodeVars, cacheVars>>

NextAst == PushChild \/ ToSysex

SpecAst == InitAst /\ [][NextAst]_vars

\* SpecWire: either producer of wire messages runs
SpecWire == (InitAst \/ InitDevice) /\ [][NextAst \/ NextDevice]_vars

-----------------------------------------------------------------------------
(* SpecKey: a key text is given to one of the key parsers *)

MaxKeyLen == 5
MaxNoteLen == 3
MaxNoteByte == 127

\* the pieces a key text is made of: control names, the separators, digits
\* and a mode name
KeySymbols == {"Seq", "Gate", "Pad", "Ctl", "/", ":", "0", "1", "9", "Note"}

Keys == UNION { [1..n -> KeySymbols] : n \in 0..MaxKeyLen }

InitKey ==
    /\ unit = "key"
    /\ checked \in BOOLEAN
    /\ CodecIdle /\ DeviceIdle /\ RecvIdle /\ AstIdle /\ NoteIdle /\ ValueIdle /\ DecodeIdle /\ CacheIdle
    /\ param_key \in Keys
    /\ parsed = Err("")
    /\ k_pc = "input"

\* schema.parse_key(param_key)
ParseKey ==
    /\ k_pc = "input"
    /\ parsed' = parse_key(SchemaParameters, param_key)
    /\ k_pc' = "schema"
    /\ UNCHANGED <<unit, checked, param_key, codecVars, deviceVars, recvVars, astVars, noteVars, valueVars, decodeVars, cacheVars>>

\* MicrobruteGlobals::parse(param_key)
ParseGlobals ==
    /\ k_pc = "input"
    /\ parsed' = parse(param_key, checked)
    /\ k_pc' = "microbrute"
    /\ UNCHANGED <<unit, checked, param_key, codecVars, deviceVars, recvVars, astVars, noteVars, valueVars, decodeVars, cacheVars>>

NextKey == ParseKey \/ ParseGlobals

SpecKey == InitKey /\ [][NextKey]_vars

-----------------------------------------------------------------------------
(* SpecParseValue: a value text is parsed against the bounds of a key *)

\* the bounds of MidiRxChan as the schema declares them: a range, then a name
RxChanBounds == << SchemaRange(1, 16, Some(1)), Values(<< << <<"All">>, 16 >> >>) >>

\* the keys of the schema (Seq, StepOn, MidiRxChan), a key whose bounds
\* overlap, a key with a mode and with the same field bounds, a key without
\* bounds
ValueKeys ==
    { QueryKey(<<"Seq">>, Some(<< SchemaNoteSeq(64, Some(24)) >>), None),
      QueryKey(<<"StepOn">>, Some(<< Values(<< << <<"Gate">>, 1 >>, << <<"Key">>, 2 >> >>) >>), None),
      QueryKey(<<"MidiRxChan">>, Some(RxChanBounds), None),
      QueryKey(<<"Step">>, Some(<< SchemaRange(1, 8, Some(1)), SchemaRange(1, 16, None),
                                   Values(<< << <<"1">>, 99 >> >>) >>), None),
      QueryKey(<<"Pad">>, Some(RxChanBounds), Some(<< Field(<<"Chan">>, RxChanBounds) >>)),
      QueryKey(<<"Raw">>, None, None) }

\* the value texts: numbers, names, field assignments, note lists
ValueTexts ==
    { <<"1">>, <<"9">>, <<"1", "7">>, <<"0">>, <<"All">>, <<"Gate">>, <<"Bogus">>, <<>>,
      <<"Chan", "=", "5">>, <<"Chan", "=", "All">>, <<"Chan", "=", "9", "9">>,
      <<"Bogus", "=", "1">>, <<"Chan", "=", "1", "=", "2">>,
      <<"A", "7">>, <<"C", "0", ",", "H", "1">> }
    \cup { JoinComma(NoteList(n, k)) : n \in NoteLens \ {0}, k \in 1..2 }

InitParseValue ==
    /\ unit = "value"
    /\ checked \in BOOLEAN
    /\ CodecIdle /\ DeviceIdle /\ RecvIdle /\ AstIdle /\ KeyIdle /\ NoteIdle
    /\ DecodeIdle /\ CacheIdle
    /\ v_key \in ValueKeys
    /\ v_text \in ValueTexts
    /\ v_tried = <<>>
    /\ v_value = Err("")
    /\ v_pc = "input"

\* v_key.parse_value(v_text)
ParseValue ==
    /\ v_pc = "input"
    /\ v_value' = parse_value(v_key, v_text, checked)
    /\ v_tried' = LET bs == selected_bounds(v_key, v_text)
                      parts == Split(v_text, "=")
                  IN IF ~bs.ok THEN <<>>
                     ELSE Tried(Converted(bs.val, IF Len(parts) = 2 THEN parts[2] ELSE v_text,
                                          checked))
    /\ v_pc' = "parsed"
    /\ UNCHANGED <<unit, checked, v_key, v_text, codecVars, deviceVars, recvVars, astVars, keyVars, noteVars,
                   decodeVars, cacheVars>>

SpecParseValue == InitParseValue /\ [][ParseValue]_vars

-----------------------------------------------------------------------------
(* SpecIndex: the index of a sequence key, from the key text to the wire and
   back: a key is parsed and displayed, the keys are listed, a command is
   sent, replies arrive *)

MaxIndexKey == 9

IndexKeys == { <<"Seq", "/">> \o to_string(i) : i \in 0..MaxIndexKey } \cup { <<"Seq">>, <<"Gate">> }

InitIndexKey ==
    /\ unit = "key"
    /\ checked \in BOOLEAN
    /\ CodecIdle /\ DeviceIdle /\ RecvIdle /\ AstIdle /\ NoteIdle /\ ValueIdle /\ DecodeIdle /\ CacheIdle
    /\ param_key \in IndexKeys
    /\ parsed = Err("")
    /\ k_pc = "input"

\* the parsed key is displayed: param.to_string()
ShowParsed ==
    /\ k_pc = "microbrute"
    /\ parsed.ok
    /\ parsed' = GlobalsToString(parsed.val, checked)
    /\ k_pc' = "displayed"
    /\ UNCHANGED <<unit, checked, param_key, codecVars, deviceVars, recvVars, astVars, noteVars, valueVars, decodeVars, cacheVars>>

\* MicroBruteDescriptor::globals()
ListGlobals ==
    /\ k_pc = "input"
    /\ parsed' = Ok(globals)
    /\ k_pc' = "listed"
    /\ UNCHANGED <<unit, checked, param_key, codecVars, deviceVars, recvVars, astVars, noteVars, valueVars, decodeVars, cacheVars>>

NextIndex == ParseGlobals \/ ShowParsed \/ ListGlobals \/ NextDevice \/ NextReceive

SpecIndex == (InitIndexKey \/ InitDevice \/ InitReceive) /\ [][NextIndex]_vars

-----------------------------------------------------------------------------
(* SpecNote: a note text is parsed and shown again, a note value is shown
   and parsed again *)

\* the characters a note text is drawn from: the seven letters, a letter
\* that names no note, the sharp sign and the digits
NoteSymbols == {"C", "D", "E", "F", "G", "A", "B", "H", "#"} \cup { Digits[d] : d \in 1..10 }

NoteInputs == UNION { [1..n -> NoteSymbols] : n \in 0..MaxNoteLen }

InitNote ==
    /\ unit = "note"
    /\ checked \in BOOLEAN
    /\ CodecIdle /\ DeviceIdle /\ RecvIdle /\ AstIdle /\ KeyIdle /\ ValueIdle /\ DecodeIdle /\ CacheIdle
    /\ n_text = <<>>
    /\ n_byte = 0
    /\ n_note = Err("")
    /\ n_shown = Err("")
    /\ n_pc = "input"

\* MidiNote::from_str(n_text)
NoteFromStr ==
    /\ n_pc = "input"
    /\ \E text \in NoteInputs :
           /\ n_text' = text
           /\ n_note' = MidiNoteFromStr(text)
    /\ n_pc' = "parsed"
    /\ UNCHANGED <<unit, checked, n_byte, n_shown, codecVars, deviceVars, recvVars, astVars, keyVars, valueVars, decodeVars, cacheVars>>

\* the parsed note is formatted: MidiNote { note }.to_string()
NoteShowParsed ==
    /\ n_pc = "parsed"
    /\ n_note.ok
    /\ n_shown' = MidiNoteToString(n_note.val, checked)
    /\ n_pc' = "reshown"
    /\ UNCHANGED <<unit, checked, n_text, n_byte, n_note, codecVars, deviceVars, recvVars, astVars, keyVars, valueVars, decodeVars, cacheVars>>

\* MidiNote { note: n_byte }.to_string()
NoteShow ==
    /\ n_pc = "input"
    /\ \E b \in 0..MaxNoteByte :
           /\ n_byte' = b
           /\ n_shown' = MidiNoteToString(b, checked)
    /\ n_pc' = "shown"
    /\ UNCHANGED <<unit, checked, n_text, n_note, codecVars, deviceVars, recvVars, astVars, keyVars, valueVars, decodeVars, cacheVars>>

\* the text shown is parsed: MidiNote::from_str(&shown)
NoteParseShown ==
    /\ n_pc = "shown"
    /\ n_shown.ok
    /\ n_note' = MidiNoteFromStr(n_shown.val)
    /\ n_pc' = "reparsed"
    /\ UNCHANGED <<unit, checked, n_text, n_byte, n_shown, codecVars, deviceVars, recvVars, astVars, keyVars, valueVars, decodeVars, cacheVars>>

NextNote == NoteFromStr \/ NoteShowParsed \/ NoteShow \/ NoteParseShown

SpecNote == InitNote /\ [][NextNote]_vars

-----------------------------------------------------------------------------
(* SpecDecode: frames are given, one after the other, to one SysexReply *)

MaxFrames == 3

\* the vendors load_vendors declares, Realtime before Arturia, with the
\* manufacturer codes of sysex/mod.rs
DeclaredVendors ==
    << Vendor("Realtime", SysexDefault(<<126>>)), Vendor("Arturia", SysexDefault(<<0, 32, 107>>)) >>

\* the vendor tables the decoder is run with: the declared one, two whose
\* prefixes overlap (the shorter first, the longer first), and one whose
\* first vendor has a reply prefix of its own
VendorTables ==
    { DeclaredVendors,
      << Vendor("Extended", SysexDefault(<<0>>)), Vendor("Arturia", SysexDefault(<<0, 32, 107>>)) >>,
      << Vendor("Arturia", SysexDefault(<<0, 32, 107>>)), Vendor("Extended", SysexDefault(<<0>>)) >>,
      << Vendor("Korg", [Update |-> <<66>>, Request |-> <<66>>, Reply |-> <<65>>]),
         Vendor("Roland", SysexDefault(<<65>>)) >> }

\* the buffers received: empty, whole frames of each vendor, frames without
\* the terminator, truncated prefixes, foreign vendors, no leading 0xf0
DecodeFrames ==
    { <<>>, <<240>>, <<240, 247>>, <<240, 126, 127, 6, 2, 247>>, <<240, 126>>,
      <<240, 0, 32, 107, 5, 1, 247>>, <<240, 0, 32, 107>>, <<240, 0, 32>>, <<240, 0, 247>>,
      <<240, 65, 247>>, <<240, 66, 247>>, <<240, 67, 247>>,
      <<126, 247>>, <<0, 32, 107, 247>>, <<247>> }

InitDecode ==
    /\ unit = "decode"
    /\ checked \in BOOLEAN
    /\ CodecIdle /\ DeviceIdle /\ RecvIdle /\ AstIdle /\ KeyIdle /\ NoteIdle /\ ValueIdle
    /\ CacheIdle
    /\ vendors \in VendorTables
    /\ p_message = <<>>
    /\ p_pos = 0
    /\ p_op = [name |-> "new", arg |-> <<>>]
    /\ p_result = Ok(<<>>)
    /\ reply_ast = AST_new
    /\ p_frames = <<>>

\* reply.parse(buffer)
ParseFrame ==
    /\ unit = "decode"
    /\ Len(p_frames) < MaxFrames
    /\ \E buffer \in DecodeFrames :
         LET d == SysexReply_parse(reply_ast, vendors, buffer) IN
         /\ p_message' = buffer
         /\ p_pos' = d.ctx.pos
         /\ p_op' = [name |-> "parse", arg |-> buffer]
         /\ p_result' = d.ret
         /\ reply_ast' = d.ast
         /\ p_frames' = Append(p_frames, buffer)
    /\ UNCHANGED <<unit, checked, vendors, codecVars, deviceVars, recvVars, astVars, keyVars,
                   noteVars, valueVars, cacheVars>>

SpecDecode == InitDecode /\ [][ParseFrame]_vars

-----------------------------------------------------------------------------
(* SpecCursor: the operations of a cursor, from the start of a buffer *)

MaxBuffer == 3
MaxTake == 4

CursorBytes == {0, 32, 240, 247}
CursorBuffers == UNION { [1..n -> CursorBytes] : n \in 0..MaxBuffer }
CursorTokens == { <<>>, <<240>>, <<247>>, <<0>>, <<0, 32>>, <<32, 0, 240>> }

\* PCTX{message, pos: 0}
InitCursor ==
    /\ unit = "cursor"
    /\ checked \in BOOLEAN
    /\ CodecIdle /\ DeviceIdle /\ RecvIdle /\ AstIdle /\ KeyIdle /\ NoteIdle /\ ValueIdle
    /\ CacheIdle
    /\ vendors = <<>>
    /\ p_message \in CursorBuffers
    /\ p_pos = 0
    /\ p_op = [name |-> "new", arg |-> <<>>]
    /\ p_result = Ok(<<>>)
    /\ reply_ast = <<>>
    /\ p_frames = <<>>

\* the cursor moves as the call says and the call's return value is kept
CursorCall(name, arg, done) ==
    /\ p_pos' = done.ctx.pos
    /\ p_op' = [name |-> name, arg |-> arg]
    /\ p_result' = done.ret
    /\ UNCHANGED <<unit, checked, vendors, p_message, reply_ast, p_frames, codecVars, deviceVars,
                   recvVars, astVars, keyVars, noteVars, valueVars, cacheVars>>

Accept ==
    /\ unit = "cursor"
    /\ \E token \in CursorTokens : CursorCall("accept", token, accept(PCTX(p_message, p_pos), token))

Expect ==
    /\ unit = "cursor"
    /\ \E token \in CursorTokens : CursorCall("expect", token, expect(PCTX(p_message, p_pos), token))

Take ==
    /\ unit = "cursor"
    /\ \E length \in 0..MaxTake : CursorCall("take", length, take(PCTX(p_message, p_pos), length))

NextByte ==
    /\ unit = "cursor"
    /\ CursorCall("next_byte", <<>>, next_byte(PCTX(p_message, p_pos)))

NextCursor == Accept \/ Expect \/ Take \/ NextByte

SpecCursor == InitCursor /\ [][NextCursor]_vars

-----------------------------------------------------------------------------
(* The state cache of the Microbrute (microbrute.rs) *)

\* param_enum!(MicrobruteParameter): the code of each parameter
MicrobruteParameter ==
    [ NotePriority |-> 11, VelocityResponse |-> 17, Play |-> 46, SeqRetrig |-> 52,
      NextSeq |-> 50, StepOn |-> 42, Step |-> 56, LfoKeyRetrig |-> 15,
      EnvLegatoMode |-> 13, Gate |-> 54, Sync |-> 60, BendRange |-> 44,
      MidiRecvChan |-> 5, MidiSendChan |-> 7 ]

\* the parameters request_state asks for when a Microbrute is built
SYSEX_PARAM_IDS == <<6, 8, 53, 16, 47, 12, 14, 18, 51, 45, 57, 55, 43, 61>>

\* the counter request_state returns: one more for every query sent
request_state(sysex_count) == sysex_count + Len(SYSEX_PARAM_IDS)

sysex_update_param(counter, param, value) ==
    <<240, 0, 32, 107, 5, 1, counter % U8, 1, MicrobruteParameter[param], value, 247>>

\* struct Microbrute; state is a map from parameters to values
Microbrute(conn_out, counter, state) ==
    [conn_out |-> conn_out, sysex_counter |-> counter, state |-> state]

Microbrute_get(self, param) ==
    IF param \in DOMAIN self.state THEN Some(self.state[param]) ELSE None

\* HashMap::insert: the map with the entry, and the value the key had
HashMap_insert(map, key, value) ==
    [ map |-> [k \in DOMAIN map \cup {key} |-> IF k = key THEN value ELSE map[k]],
      old |-> IF key \in DOMAIN map THEN Some(map[key]) ELSE None ]

\* a set that counts the message before it is sent
Microbrute_set_counted_first(self, param, value, send_ok) ==
    IF ~send_ok
    THEN [ self |-> Microbrute(self.conn_out, self.sysex_counter + 1, self.state),
           ret |-> Err("SendError") ]
    ELSE LET ins == HashMap_insert(self.state, param, value)
         IN [ self |-> Microbrute(
                          Append(self.conn_out,
                                 sysex_update_param(self.sysex_counter, param, value)),
                          self.sysex_counter + 1, ins.map),
              ret |-> Ok(ins.old) ]

\* Microbrute::set; send_ok tells whether the output connection takes the
\* message. The `?` returns before the counter and the map are touched.
Microbrute_set(self, param, value, send_ok) ==
    IF ~send_ok
    THEN [ self |-> self, ret |-> Err("SendError") ]
    ELSE LET ins == HashMap_insert(self.state, param, value)
         IN [ self |-> Microbrute(
                          Append(self.conn_out,
                                 sysex_update_param(self.sysex_counter, param, value)),
                          self.sysex_counter + 1, ins.map),
              ret |-> Ok(ins.old) ]

-----------------------------------------------------------------------------
(* The specification of the state cache: get and set on a Microbrute *)

\* the number of messages set may send
MaxSets == 3

CacheParams == {"NotePriority", "Gate", "MidiRecvChan"}

CacheValues == {0, 1, 3}

\* the maps the replies to request_state may have left
CacheStates ==
    { <<>>, [p \in {"NotePriority"} |-> 1],
      [p \in {"Gate", "MidiRecvChan"} |-> IF p = "Gate" THEN 3 ELSE 0] }

\* from_midi: the counter after request_state(conn_out, 0), the map of the
\* listener
InitCache ==
    /\ unit = "cache"
    /\ checked \in BOOLEAN
    /\ CodecIdle /\ DeviceIdle /\ RecvIdle /\ AstIdle /\ KeyIdle /\ NoteIdle /\ ValueIdle
    /\ DecodeIdle
    /\ mb_state \in CacheStates
    /\ mb_counter = request_state(0)
    /\ mb_out = <<>>
    /\ mb_call = [name |-> "from_midi"]
    /\ mb_result = Ok(<<>>)

CacheSelf == Microbrute(mb_out, mb_counter, mb_state)

Get ==
    /\ unit = "cache"
    /\ \E param \in CacheParams :
         /\ mb_call' = [name |-> "get", param |-> param]
         /\ mb_result' = Ok(Microbrute_get(CacheSelf, param))
    /\ UNCHANGED <<mb_state, mb_counter, mb_out>>
    /\ UNCHANGED <<unit, checked, codecVars, deviceVars, recvVars, astVars, keyVars, noteVars,
                   valueVars, decodeVars>>

Set ==
    /\ unit = "cache"
    /\ mb_counter < request_state(0) + MaxSets
    /\ \E param \in CacheParams, value \in CacheValues, send_ok \in BOOLEAN :
         LET r == Microbrute_set(CacheSelf, param, value, send_ok)
         IN /\ mb_call' = [name |-> "set", param |-> param, value |-> value,
                           send_ok |-> send_ok]
            /\ mb_result' = r.ret
            /\ mb_state' = r.self.state
            /\ mb_counter' = r.self.sysex_counter
            /\ mb_out' = r.self.conn_out
    /\ UNCHANGED <<unit, checked, codecVars, deviceVars, recvVars, astVars, keyVars, noteVars,
                   valueVars, decodeVars>>

NextCache == Get \/ Set

SpecCache == InitCache /\ [][NextCache]_vars

-----------------------------------------------------------------------------
(* Claims about the bounds converter *)

\* C1: Range round trip. For every declared Range bound (offset, lo, hi) and
\* every display value v in lo..hi, the encoder accepts v and decoding the
\* byte it produced yields v again; for v outside lo..hi the encoder rejects
\* with ValueOutOfBound and the decoder rejects the corresponding wire byte.
C1_RangeRoundTrip ==
    (c_pc = "decoded" /\ bounds(c_param).kind = "Range") =>
        LET b == bounds(c_param) IN
        IF b.lo <= c_value /\ c_value <= b.hi
        THEN /\ codes.ok
             /\ (wire = codes.val[1] => shown = Some(to_string(c_value)))
        ELSE /\ ~codes.ok
             /\ codes.err = "ValueOutOfBound"
             /\ (wire = (c_value - b.offset) % U8 => ~shown.ok)

-----------------------------------------------------------------------------
(* Claims about the commands of MicroBruteDevice *)

\* the block header and payload carried by an update message for a sequence:
\* 0xf0, four vendor bytes, 0x01, the message id and two code bytes precede
\* the header (index, offset, length); 0xf7 follows the payload
BlockHeader(message) == SubSeq(message, 10, 12)
BlockPayload(message) == SubSeq(message, 13, Len(message) - 1)

\* the first `length` payload bytes of each block, in order
BlocksData(blocks) ==
    Concat([i \in 1..Len(blocks) |-> SubSeq(BlockPayload(blocks[i]), 1, BlockHeader(blocks[i])[3])])

\* an update of sequence Seq/1 with n notes, 1 <= n <= 64, returned Ok
SeqUpdateRan(n) ==
    /\ d_pc = "done"
    /\ cmd.op = "update"
    /\ cmd.params = << <<"Seq", "/", "1">> >>
    /\ Len(cmd.values) = n
    /\ outcome.ok

\* C2: Sequence chunking. An update of an indexed sequence with n notes,
\* 1 <= n <= 64, is sent as ceil(n/32) messages; block i has the header
\* (seq index, 32 (i-1), min(32, n - 32 (i-1))), so that 40 notes give the
\* headers (index, 0, 32) and (index, 32, 8); and the first `length` payload
\* bytes of the blocks, in order, are the n notes.
C2_SequenceChunking ==
    \A n \in 1..SEQ_BUFFER :
        SeqUpdateRan(n) =>
            /\ Len(sent) = (n + BLOCK_SIZE - 1) \div BLOCK_SIZE
            /\ \A i \in 1..Len(sent) :
                 BlockHeader(sent[i]) =
                     <<0, BLOCK_SIZE * (i - 1),
                       IF n - BLOCK_SIZE * (i - 1) > BLOCK_SIZE
                       THEN BLOCK_SIZE ELSE n - BLOCK_SIZE * (i - 1)>>
            /\ BlocksData(sent) =
                 bound_codes(bounds(SeqParam(0)), cmd.values, bound_reqs(SeqParam(0)), checked).val

\* the errors by which a command reports an invalid key or value
ValidationErrors ==
    { "UnknownParameter", "VariantNotFound", "BadIndexParameter", "ParseIntError",
      "UnknownValue", "ValueOutOfBound", "MissingValue", "TooManyValues",
      "NoteParse", "InvalidParam", "InvalidValue" }

\* C4: Encoding never partially fails. When a query or update command is
\* rejected because one of its keys or values is invalid, no message at all
\* has been sent for that command.
C4_NoPartialFailure ==
    (d_pc = "done" /\ ~outcome.ok /\ outcome.err \in ValidationErrors) => sent = <<>>

-----------------------------------------------------------------------------
(* Claims about the receive callbacks *)

\* a framed MicroBrute reply that carries a known control code and every
\* byte the decoder reads for that control
WellFormedReply(message) ==
    LET body == SubSeq(message, 6, Len(message) - 1) IN
    /\ message = Reply(body)
    /\ Len(body) >= 5
    /\ \E i \in 1..Len(GlobalNames) :
        /\ sysex_data_code(Global(GlobalNames[i]))[2] = body[4]
        /\ GlobalNames[i] = "Seq" => Len(body) >= 7

\* C3: Decode resilience. For every buffer delivered to a receive callback
\* (empty, truncated at any length, foreign-vendor, arbitrary bytes) the
\* callback returns without a panic, and when the buffer is not a well-formed
\* reply for a known control the accumulator is left as it was.
C3_DecodeResilience ==
    [][ n_recv' = n_recv + 1 =>
            /\ r_pc' # "panicked"
            /\ ~WellFormedReply(rx') =>
                   (result_map' = result_map /\ received_values' = received_values) ]_vars

-----------------------------------------------------------------------------
(* Claims about the serializer *)

Leaves(tree) == { n \in 1..Len(tree) : tree[n].children = <<>> }

RECURSIVE DfsLeaves(_, _)
\* the leaves below n, depth first, the children of a node left to right
DfsLeaves(tree, n) ==
    IF tree[n].children = <<>> THEN <<n>>
    ELSE Concat([c \in 1..Len(tree[n].children) |-> DfsLeaves(tree, tree[n].children[c])])

RECURSIVE PathTo(_, _)
\* the nodes from the root down to n
PathTo(tree, n) ==
    IF tree[n].parent = 0 THEN <<n>> ELSE Append(PathTo(tree, tree[n].parent), n)

\* the bytes the token of n puts at the head of a message
HeadBytes(tree, n, frm) == Token_to_sysex(tree[n].token, BufferDefault, frm).head

\* the head bytes of the nodes of a path, in order
PathBytes(tree, path, frm) == Concat([i \in 1..Len(path) |-> HeadBytes(tree, path[i], frm)])

IsPrefix(p, q) == Len(p) <= Len(q) /\ SubSeq(q, 1, Len(p)) = p

\* the nodes of a path that have two children or more
Forks(tree, path) == { i \in 1..Len(path) : Len(tree[path[i]].children) >= 2 }

\* C5: Multi-leaf serialization count. to_sysex returns exactly one message
\* per leaf of the tree, in depth-first, left-to-right leaf order: the i-th
\* message is the one of the i-th leaf, made of the bytes of the nodes from
\* the root to that leaf.
C5_OneMessagePerLeaf ==
    a_pc = "done" =>
        LET leaves == DfsLeaves(arena, 1) IN
        /\ Len(messages) = Cardinality(Leaves(arena))
        /\ Len(messages) = Len(leaves)
        /\ \A i \in 1..Len(leaves) :
             messages[i] = PathBytes(arena, PathTo(arena, leaves[i]), form) \o <<SYSEX_END>>

\* a node below the root has three children, all leaves and the only leaves
\* of the tree, of which two differ, and three messages were returned
C5_Witness ==
    /\ a_pc = "done"
    /\ Len(messages) = 3
    /\ \E n \in 2..Len(arena) :
        /\ Len(arena[n].children) = 3
        /\ Leaves(arena) = { arena[n].children[c] : c \in 1..3 }
        /\ arena[arena[n].children[1]].token # arena[arena[n].children[3]].token

Framed(message) ==
    /\ Len(message) >= 2
    /\ message[1] = SYSEX_BEGIN
    /\ message[Len(message)] = SYSEX_END

\* C6: Framing invariant. Every message produced by AST::to_sysex and by
\* sysex(), sysex_query_msg and sysex_update_msg has 0xF0 as its first byte
\* and 0xF7 as its last; and a message of the serializer is one byte longer
\* than the bytes its path contributes, however many forks are on the path:
\* exactly one terminator is appended.
C6_Framing ==
    /\ \A i \in 1..Len(sent) : Framed(sent[i])
    /\ \A i \in 1..Len(messages) : Framed(messages[i])
    /\ (a_pc = "done" /\ Len(messages) = Len(DfsLeaves(arena, 1))) =>
          \A i \in 1..Len(messages) :
              Len(messages[i]) =
                  Len(PathBytes(arena, PathTo(arena, DfsLeaves(arena, 1)[i]), form)) + 1

\* a serialized tree with a leaf that has two forks on its path
C6_Witness ==
    /\ a_pc = "done"
    /\ \E n \in Leaves(arena) : Cardinality(Forks(arena, PathTo(arena, n))) >= 2
    /\ Len(messages) >= 3

\* C7: Fork independence. Two messages produced from leaves under a common
\* ancestor are identical over the bytes contributed by the nodes from the
\* root down to that ancestor; and after the bytes of their deepest common
\* ancestor each message holds only the bytes of the nodes of its own
\* branch, followed by the terminator.
C7_ForkIndependence ==
    (a_pc = "done" /\ Len(messages) = Len(DfsLeaves(arena, 1))) =>
        LET leaves == DfsLeaves(arena, 1) IN
        \A i, j \in 1..Len(leaves) :
            i # j =>
                LET pi == PathTo(arena, leaves[i])
                    pj == PathTo(arena, leaves[j])
                    common == { k \in 1..Len(pi) : k <= Len(pj) /\ pi[k] = pj[k] }
                IN /\ \A k \in common :
                        LET shared == PathBytes(arena, SubSeq(pi, 1, k), form) IN
                        IsPrefix(shared, messages[i]) /\ IsPrefix(shared, messages[j])
                   /\ LET k == Cardinality(common)
                          shared == PathBytes(arena, SubSeq(pi, 1, k), form)
                      IN messages[i] =
                             shared \o PathBytes(arena, SubSeq(pi, k + 1, Len(pi)), form)
                                    \o <<SYSEX_END>>

\* two leaves whose deepest common ancestor is below the root, on branches
\* that contribute different bytes
C7_Witness ==
    /\ a_pc = "done"
    /\ \E i, j \in 1..Len(messages) :
        /\ i < j
        /\ Len(messages) = Len(DfsLeaves(arena, 1))
        /\ messages[i] # messages[j]
        /\ LET pi == PathTo(arena, DfsLeaves(arena, 1)[i])
               pj == PathTo(arena, DfsLeaves(arena, 1)[j])
           IN /\ Len(pi) >= 3 /\ Len(pj) >= 3
              /\ pi[2] = pj[2]
              /\ pi[3] # pj[3]

-----------------------------------------------------------------------------
(* Claims about the key parsers *)

\* the text of the key that names a control, an optional index and an
\* optional mode
KeyText(name, idx, md) ==
    name \o (IF idx.ok THEN <<"/">> \o to_string(idx.val) ELSE <<>>)
         \o (IF md.ok THEN <<":">> \o md.val ELSE <<>>)

\* the indexes and the modes a key may carry for a control
IndexOptions(param) ==
    IF param.range.ok THEN { Some(i) : i \in param.range.val.lo..param.range.val.hi }
    ELSE {None}

ModeOptions(param) ==
    IF param.modes.ok THEN { Some(m) : m \in param.modes.val } ELSE {None}

\* C8: Text key grammar. For a declared control, parse_key accepts Name,
\* Name/Index, Name:Mode and Name/Index:Mode, whichever the control's
\* declaration calls for, and yields the name Name (without suffix), the
\* index if one is given and the mode if one is given.
C8_KeyGrammar ==
    k_pc = "schema" =>
        \A p \in 1..Len(SchemaParameters) :
            \A idx \in IndexOptions(SchemaParameters[p]) :
                \A md \in ModeOptions(SchemaParameters[p]) :
                    param_key = KeyText(SchemaParameters[p].name, idx, md) =>
                        parsed = Ok([name |-> SchemaParameters[p].name,
                                     index |-> idx, mode |-> md])

Count(s, c) == Cardinality({ i \in 1..Len(s) : s[i] = c })

\* more than one "/", more than one ":", or a ":" before the "/"
BadArrangement(key) ==
    \/ Count(key, "/") > 1
    \/ Count(key, ":") > 1
    \/ \E i, j \in 1..Len(key) : i < j /\ key[i] = ":" /\ key[j] = "/"

\* C9: A key whose slash/colon arrangement is not one of the four shapes is
\* rejected with BadControlSyntax, never with another error and never
\* accepted.
C9_BadControlSyntax ==
    (k_pc = "schema" /\ BadArrangement(param_key)) => parsed = Err("BadControlSyntax")

\* the index range each parser has for a control: the schema's declaration,
\* and max_index of MicrobruteGlobals with its low index 1
DeclaredRange(name) ==
    IF k_pc = "schema"
    THEN parameters_get(SchemaParameters, name).val.range
    ELSE IF max_index(Global(name[1])).ok
         THEN Some([lo |-> 1, hi |-> max_index(Global(name[1])).val])
         ELSE None

\* the controls both parsers know, neither declaring modes
IndexedNames == { <<"Seq">>, <<"Gate">> }

\* C10: Index validation. In the schema parser and in the MicroBrute parser,
\* a key Name/Index whose index is outside the declared range (0 and hi + 1
\* included) or whose control declares no range, and a key Name whose
\* control declares a range, is rejected with BadIndexParameter; a key is
\* accepted with an index only if lo <= index <= hi.
C10_IndexValidation ==
    k_pc \in {"schema", "microbrute"} =>
        \A name \in IndexedNames :
            LET range == DeclaredRange(name)
                digits == SubSeq(param_key, 3, Len(param_key))
            IN /\ (/\ param_key = name
                   /\ range.ok) => parsed = Err("BadIndexParameter")
               /\ (/\ Len(param_key) >= 3
                   /\ SubSeq(param_key, 1, 2) = name \o <<"/">>
                   /\ UsizeFromStr(digits).ok) =>
                      IF range.ok /\ ParseNat(digits) >= range.val.lo
                                  /\ ParseNat(digits) <= range.val.hi
                      THEN parsed.ok
                      ELSE parsed = Err("BadIndexParameter")

\* the mode names a key may carry: one that Pad and Ctl declare, one that no
\* control declares
ModeWords == { <<"Note">>, <<"Gate">> }

\* C11: Mode validation. For a declared control and an index that suits it,
\* parse_key succeeds with a mode exactly when the control has a mode set and
\* the mode named is a member of it; a mode given for a control without
\* modes, no mode given for a control with modes, and an unknown mode name
\* each yield BadModeParameter.
C11_ModeValidation ==
    k_pc = "schema" =>
        \A p \in 1..Len(SchemaParameters) :
            \A idx \in IndexOptions(SchemaParameters[p]) :
                \A md \in {None} \cup { Some(w) : w \in ModeWords } :
                    param_key = KeyText(SchemaParameters[p].name, idx, md) =>
                        LET modes == SchemaParameters[p].modes IN
                        IF modes.ok /\ md.ok /\ md.val \in modes.val
                        THEN parsed.ok /\ parsed.val.mode = md
                        ELSE IF ~modes.ok /\ ~md.ok
                        THEN parsed.ok /\ ~parsed.val.mode.ok
                        ELSE parsed = Err("BadModeParameter")


-----------------------------------------------------------------------------
(* Claims about the note codec *)

NoteLetters == {"C", "D", "E", "F", "G", "A", "B"}

\* a letter, an optional sharp sign and one octave digit
IsNoteText(s) ==
    \/ Len(s) = 2 /\ s[1] \in NoteLetters /\ IsDigit(s[2])
    \/ Len(s) = 3 /\ s[1] \in NoteLetters /\ s[2] = "#" /\ IsDigit(s[3])

\* C12: Note codec round trip. Every note text made of a letter of C, D, E,
\* F, G, A, B, an optional sharp sign and an octave digit is parsed, and the
\* parsed note is shown as the same text; every note value from 12 up is
\* shown, and parsing the text shown yields the same value.
C12_NoteRoundTrip ==
    /\ (n_pc = "parsed" /\ IsNoteText(n_text)) => n_note.ok
    /\ (n_pc = "reshown" /\ IsNoteText(n_text)) => n_shown = Ok(n_text)
    /\ (n_pc = "shown" /\ n_byte >= 12) => n_shown.ok
    /\ (n_pc = "reparsed" /\ n_byte >= 12) => n_note = Ok(n_byte)

\* the pitch class of a letter
PitchClass(l) ==
    CASE l = "C" -> 0 [] l = "D" -> 2 [] l = "E" -> 4 [] l = "F" -> 5
      [] l = "G" -> 7 [] l = "A" -> 9 [] l = "B" -> 11

\* C13: Note encoding formula. from_str maps a letter, an optional sharp sign
\* and an octave digit to octave * 12 + pitch class + 12, the sharp sign
\* adding 1, so that C0 is 12, C#0 is 13 and C1 is 24; for every octave the
\* parser reads the value is below 256, so the byte does not wrap around.
C13_NoteFormula ==
    (n_pc = "parsed" /\ IsNoteText(n_text)) =>
        LET sharp == Len(n_text) = 3
            octave == DigitVal(n_text[Len(n_text)])
            value == octave * 12 + PitchClass(n_text[1]) + (IF sharp THEN 1 ELSE 0) + 12
        IN /\ n_note = Ok(value)
           /\ n_note.val < U8
           /\ (n_text = <<"C", "0">> => n_note.val = 12)
           /\ (n_text = <<"C", "#", "0">> => n_note.val = 13)
           /\ (n_text = <<"C", "1">> => n_note.val = 24)

\* the highest note text is parsed: B#9 is 132
C13_Witness ==
    n_pc = "parsed" /\ n_text = <<"B", "#", "9">> /\ n_note = Ok(132)

-----------------------------------------------------------------------------
(* Claims about the Discrete / Values bounds *)

\* C14: Values round trip. For every pair (byte, name) a Discrete table
\* declares, both encoders turn the name into the byte and the decoder turns
\* the byte into the name; a name the table lacks is rejected with
\* UnknownValue and a byte the table lacks decodes to no value.
C14_ValuesRoundTrip ==
    LET table == bounds(c_param).values
        names == { table[i][2] : i \in 1..Len(table) }
        bytes == { table[i][1] : i \in 1..Len(table) }
    IN (unit = "values" /\ c_pc # "input") =>
        /\ \A i \in 1..Len(table) :
              /\ c_value = table[i][2] => codes = Ok(<<table[i][1]>>)
              /\ (c_pc = "decoded" /\ wire = table[i][1]) => shown = Some(table[i][2])
        /\ c_value \notin names => codes = Err("UnknownValue")
        /\ (c_pc = "decoded" /\ wire \notin bytes) => shown = None
        /\ (c_pc = "decoded" /\ codes.ok /\ wire = codes.val[1]) => shown = Some(c_value)

\* "1/32" of SeqStep is encoded as 0x20, and the reply byte 0x20 is shown as
\* "1/32"
C14_Witness ==
    /\ unit = "values" /\ c_pc = "decoded"
    /\ c_param = Global("SeqStep")
    /\ c_value = <<"1", "/", "3", "2">>
    /\ codes = Ok(<<32>>)
    /\ wire = 32
    /\ shown = Some(c_value)

-----------------------------------------------------------------------------
(* Claims about the accumulation of replies *)

\* the two blocks of sequence 2 as the device sends them: block offset 0x00
\* with the notes D1, E1 and block offset 0x20 with the note C#1
SeqBlockLo == Reply(<<1, 97, 35, 58, 1, 0, 32, 50, 52>>)
SeqBlockHi == Reply(<<1, 94, 35, 58, 1, 32, 32, 49>>)

\* result_map.get(key)
Entry(map, key) ==
    IF HasKey(map, key)
    THEN Some(map[CHOOSE i \in 1..Len(map) : map[i][1] = key][2])
    ELSE None

\* C15: Reply accumulation is keyed by the control, not by arrival order.
\* When the two blocks of a sequence have arrived, the note list under the
\* key of the sequence is the notes of block 0x00 followed by those of block
\* 0x20, whichever block came first; a reply for another control leaves the
\* list as it was.
C15_ArrivalOrder ==
    [][ LET key == <<"Seq", "/", "2">>
            both == Some(<< <<"D", "1">>, <<"E", "1">>, <<"C", "#", "1">> >>)
        IN (r_pc = "sysex_receiver" /\ r_pc' = "sysex_receiver" /\ n_recv' = n_recv + 1) =>
             /\ (n_recv = 1 /\ rx = SeqBlockLo /\ rx' = SeqBlockHi) => Entry(result_map', key) = both
             /\ (n_recv = 1 /\ rx = SeqBlockHi /\ rx' = SeqBlockLo) => Entry(result_map', key) = both
             /\ rx' \notin {SeqBlockLo, SeqBlockHi} => Entry(result_map', key) = Entry(result_map, key) ]_vars

-----------------------------------------------------------------------------
(* Claims about a transport that refuses a send *)

\* the run of the command cmd on a transport that refuses nothing
Unfailing(c, id, counter, chk) ==
    CASE c.op = "query" -> query(Conn(id, 0), c.params, chk)
      [] c.op = "update" -> update(Conn(id, 0), c.params[1], c.values, chk)
      [] c.op = "get" -> command_get(Conn(counter, 0), DescriptorParams, c.params)
      [] c.op = "set" -> command_set(Conn(counter, 0), DescriptorParams, c.params[1], c.values[1], chk)

-----------------------------------------------------------------------------
(* Claims about the index of a sequence key *)

\* a framed reply carrying a block of the sequence with wire index idx
IsSeqBlock(message, idx) ==
    /\ WellFormedReply(message)
    /\ SubSeq(message, 8, 10) = <<35, 58, idx>>

\* C17: The index base is converted once per direction. For every i in 1..8
\* the key Seq/i parses to the index i-1, the index byte of every message a
\* query or an update of Seq/i sends is i-1, the parsed key is displayed as
\* Seq/i, and a reply carrying the index i-1 is filed under Seq/i; the keys
\* globals() lists for the sequence control are exactly Seq/1 .. Seq/8.
C17_IndexBase ==
    /\ \A i \in 1..8 :
          LET key == <<"Seq", "/">> \o to_string(i) IN
          /\ (k_pc = "microbrute" /\ param_key = key) => parsed = Ok(SeqParam(i - 1))
          /\ (k_pc = "displayed" /\ param_key = key) => parsed = Ok(key)
          /\ (d_pc = "done" /\ cmd.op \in {"query", "update"} /\ cmd.params = <<key>>) =>
                 \A j \in 1..Len(sent) : sent[j][10] = i - 1
          /\ (r_pc = "sysex_receiver" /\ n_recv > 0 /\ IsSeqBlock(rx, i - 1)) =>
                 HasKey(result_map, key)
    /\ k_pc = "listed" =>
          LET listed == { j \in 1..Len(parsed.val) : parsed.val[j][1] = "Seq" } IN
          /\ { parsed.val[j] : j \in listed } = { <<"Seq", "/">> \o to_string(i) : i \in 1..8 }
          /\ Cardinality(listed) = 8

\* Seq/8 was parsed and displayed again
C17_Witness ==
    k_pc = "displayed" /\ param_key = <<"Seq", "/", "8">> /\ parsed = Ok(param_key)

-----------------------------------------------------------------------------
(* Claims about the schema value parser *)

\* C18: Note sequences never exceed the maximum length. Converting a list of
\* notes for a note-sequence bound yields at most max_len bytes, and a list
\* of more than max_len notes is rejected with TooManyValues.
C18_MaxLen ==
    (v_pc = "parsed" /\ v_key.bounds.ok /\ ~v_key.fields.ok
        /\ Len(v_key.bounds.val) = 1 /\ v_key.bounds.val[1].kind = "NoteSeq") =>
        LET max_len == v_key.bounds.val[1].max_len IN
        /\ v_value.ok => Len(v_value.val.bytes) <= max_len
        /\ Len(Split(v_text, ",")) > max_len => v_value = Err("TooManyValues")

-----------------------------------------------------------------------------
(* Claims about the rendering of a sequence reply *)

\* the body of a framed reply with the given header
BodyOf(message, header) == SubSeq(message, Len(header) + 2, Len(message) - 1)

\* a framed reply with the given header that carries a block of a sequence
IsBlock(message, header) ==
    LET body == BodyOf(message, header) IN
    /\ message = <<SYSEX_BEGIN>> \o header \o body \o <<SYSEX_END>>
    /\ Len(body) >= 7
    /\ SubSeq(body, 3, 4) = <<35, 58>>
    /\ body[5] < 8

\* the note bytes of a block that stand before its first 0x00
BeforeZero(body) ==
    LET notes == SubSeq(body, 8, Len(body))
        n == CHOOSE k \in 0..Len(notes) :
                 /\ \A j \in 1..k : notes[j] # 0
                 /\ k = Len(notes) \/ notes[k + 1] = 0
    IN SubSeq(notes, 1, n)

\* the text a note byte is to be rendered as; the name of a note is taken as
\* Display writes it where no overflow check interferes
Rendering(b) ==
    IF b = REST_NOTE THEN <<"_">>
    ELSE IF b < 24 THEN <<"?">> \o to_string(b)
    ELSE MidiNoteToString(b - 24, FALSE).val

\* C20: Sequence reply rendering. When a block of a sequence is decoded,
\* every note byte before its first 0x00 is rendered, in order, at the end of
\* the list of the sequence: 0x7f as "_", a byte below 24 as "?" and the
\* byte, any other byte as the name of the note byte - 24; no byte at or
\* after the first 0x00 is rendered. This holds for the decoder of the
\* MicroBrute and for that of the BeatStep.
C20_SequenceRendering ==
    [][ \A dev \in { <<"sysex_receiver", MICROBRUTE>>, <<"beatstep_receiver", BEATSTEP>> } :
          (r_pc = dev[1] /\ n_recv' = n_recv + 1 /\ IsBlock(rx', dev[2])) =>
              LET body == BodyOf(rx', dev[2])
                  key == <<"Seq", "/">> \o to_string(body[5] + 1)
                  before == IF HasKey(result_map, key) THEN Entry(result_map, key).val ELSE <<>>
                  notes == BeforeZero(body)
              IN /\ r_pc' # "panicked"
                 /\ Entry(result_map', key) =
                        Some(before \o [i \in 1..Len(notes) |-> Rendering(notes[i])]) ]_vars

-----------------------------------------------------------------------------
(* Claims about the wire decoder *)

\* some vendor of the table has its reply prefix right after the first byte
KnownVendorAt(buffer) ==
    \E i \in 1..Len(vendors) : StartsWith(Tail(buffer), slice(vendors[i].sysex_of, "Reply"))

\* C21: The wire decoder accepts a frame only if it ends with the 0xF7
\* terminator after the last consumed field. SysexReply::parse returns Ok
\* only for buffers that begin with 0xF0, continue with a known vendor prefix
\* and end with 0xF7; an empty buffer yields EmptyMessage and a buffer that
\* does not start with 0xF0 is rejected.
C21_Terminator ==
    p_op.name = "parse" =>
        /\ p_result.ok =>
             /\ p_message # <<>>
             /\ p_message[1] = SYSEX_BEGIN
             /\ KnownVendorAt(p_message)
             /\ Len(p_message) > p_pos
             /\ p_message[Len(p_message)] = SYSEX_END
        /\ p_message = <<>> => p_result = Err("EmptyMessage")
        /\ (p_message # <<>> /\ p_message[1] # SYSEX_BEGIN) => ~p_result.ok

RECURSIVE Replayed(_, _)
\* the AST after the frames are parsed in order, starting from tree
Replayed(tree, frames) ==
    IF frames = <<>> THEN tree
    ELSE Replayed(SysexReply_parse(tree, vendors, Head(frames)).ast, Tail(frames))

\* the frames a fresh decoder accepts
Accepted(frames) ==
    SelectSeq(frames, LAMBDA f : SysexReply_parse(AST_new, vendors, f).ret.ok)

\* C22: The decoder keeps no state from failed frames. A SysexReply::parse
\* call that returns an error (EmptyMessage, Expected, UnknownVendor,
\* ShortRead) adds no node to the AST, so after any sequence of frames the AST
\* is the one the accepted frames alone would have built: one node under the
\* root for each of them, and nothing for the frames that failed.
C22_NoStateFromFailures ==
    /\ reply_ast = Replayed(AST_new, Accepted(p_frames))
    /\ Len(reply_ast) = 1 + Len(Accepted(p_frames))
    /\ (p_op.name = "parse" /\ ~p_result.ok) =>
           p_result.err \in {"EmptyMessage", "Expected", "UnknownVendor", "ShortRead"}

\* an unknown vendor, an empty buffer, then a Realtime frame: the AST holds
\* the root and the one Vendor node of the last frame
C22_Witness ==
    /\ vendors = DeclaredVendors
    /\ p_frames = << <<240, 67, 247>>, <<>>, <<240, 126, 127, 6, 2, 247>> >>
    /\ p_result.ok
    /\ Len(reply_ast) = 2
    /\ reply_ast[2].token.kind = "Vendor"

\* the vendors of the table whose reply prefix is at position 1 of the buffer
Matching(buffer) ==
    { i \in 1..Len(vendors) : StartsWith(Tail(buffer), slice(vendors[i].sysex_of, "Reply")) }

\* C24: Vendor matching in the decoder. SysexReply::vendor tries the known
\* vendors in declaration order; the first vendor whose prefix bytes match at
\* the current position consumes exactly those prefix bytes and exactly one
\* Vendor node is added under the root; if no vendor prefix matches, the
\* result is UnknownVendor, no byte is consumed and no node is added. (The
\* vendor step runs in every parse of a buffer that starts with 0xF0, with
\* the cursor after that byte.)
C24_VendorMatching ==
    [][ (p_message' # <<>> /\ p_message'[1] = SYSEX_BEGIN) =>
            IF Matching(p_message') = {}
            THEN /\ p_result' = Err("UnknownVendor")
                 /\ p_pos' = 1
                 /\ reply_ast' = reply_ast
            ELSE LET first == CHOOSE i \in Matching(p_message') :
                                  \A j \in Matching(p_message') : i <= j
                     added == Len(reply_ast) + 1
                 IN /\ p_result'.ok
                    /\ p_pos' = 1 + Len(slice(vendors[first].sysex_of, "Reply"))
                    /\ Len(reply_ast') = added
                    /\ reply_ast'[added] =
                           [token |-> Token("Vendor", vendors[first].sysex_of, 0, <<>>),
                            parent |-> 1, children |-> <<>>]
                    /\ reply_ast'[1].children = Append(reply_ast[1].children, added)
                    /\ \A n \in 2..Len(reply_ast) : reply_ast'[n] = reply_ast[n] ]_vars

\* with the one-byte prefix 0x00 declared before 0x00 0x20 0x6b, an Arturia
\* frame is taken by the first vendor: one byte consumed, one node added
C24_Witness ==
    /\ Len(vendors) = 2 /\ vendors[1].name = "Extended"
    /\ p_message = <<240, 0, 32, 107, 5, 1, 247>>
    /\ p_result.ok
    /\ p_pos = 2
    /\ Len(reply_ast) = 2
    /\ reply_ast[2].token.sysex_of = vendors[1].sysex_of

-----------------------------------------------------------------------------
(* Claims about the cursor of the decoder *)

\* the bytes of the buffer from the cursor on
Remaining == SubSeq(p_message, p_pos + 1, Len(p_message))

\* C30: Decoder cursor primitives. PCTX::take(n) returns exactly the next n
\* bytes and advances the position by n when at least n bytes remain, and
\* returns ShortRead leaving the position unchanged otherwise;
\* PCTX::next_byte returns ShortRead without moving when the buffer is
\* exhausted; PCTX::accept advances by the token length only on a match and
\* leaves the position unchanged on a mismatch; the position never exceeds
\* the buffer length.
C30_CursorPrimitives ==
    [][ /\ p_op'.name = "take" =>
             IF Len(Remaining) >= p_op'.arg
             THEN p_result' = Ok(SubSeq(Remaining, 1, p_op'.arg)) /\ p_pos' = p_pos + p_op'.arg
             ELSE p_result' = Err("ShortRead") /\ p_pos' = p_pos
        /\ (p_op'.name = "next_byte" /\ Remaining = <<>>) =>
             (p_result' = Err("ShortRead") /\ p_pos' = p_pos)
        /\ p_op'.name = "accept" =>
             IF StartsWith(Remaining, p_op'.arg)
             THEN p_result' = TRUE /\ p_pos' = p_pos + Len(p_op'.arg)
             ELSE p_result' = FALSE /\ p_pos' = p_pos
        /\ p_pos' <= Len(p_message') ]_vars

-----------------------------------------------------------------------------
(* Claims about the blocks of a sequence update *)

\* the note bytes that the length fields of the blocks account for
Accounted(blocks) == Len(BlocksData(blocks))

\* C23: Sequence transmit padding and block lengths. Before transmission the
\* note byte list of length n (0 <= n <= 64) is right-padded with 0x00 to
\* exactly 64 bytes; each block carries exactly 32 payload bytes taken at its
\* block offset; the length field of a block is min(remaining, 32), and the
\* remaining length decreases by exactly that block's length field after
\* each block, reaching 0 after the last block.
C23_PaddingAndLengths ==
    \A n \in 0..SEQ_BUFFER :
        SeqUpdateRan(n) =>
            LET padded == bound_codes(bounds(SeqParam(0)), cmd.values,
                                      bound_reqs(SeqParam(0)), checked).val
                          \o Zeros(SEQ_BUFFER - n)
                remaining(i) == n - Accounted(SubSeq(sent, 1, i - 1))
            IN /\ Len(padded) = SEQ_BUFFER
               /\ \A i \in 1..Len(sent) :
                    /\ Len(BlockPayload(sent[i])) = BLOCK_SIZE
                    /\ BlockPayload(sent[i]) =
                         SubSeq(padded, BlockHeader(sent[i])[2] + 1,
                                BlockHeader(sent[i])[2] + BLOCK_SIZE)
                    /\ BlockHeader(sent[i])[3] =
                         (IF remaining(i) > BLOCK_SIZE THEN BLOCK_SIZE ELSE remaining(i))
               /\ remaining(Len(sent) + 1) = 0

-----------------------------------------------------------------------------
(* Claims about the requests of a query *)

\* what follows the message id in a message of MicroBruteDevice, up to the
\* terminator
AfterId(message) == SubSeq(message, 8, Len(message) - 1)

\* the requests a query of the key owes, without frame and message id: one,
\* or the two block requests of a sequence
Requests(param) ==
    IF index(param).ok
    THEN << sysex_query_code(param) \o <<index(param).val, 0, 32>>,
            sysex_query_code(param) \o <<index(param).val, 32, 32>> >>
    ELSE << sysex_query_code(param) >>

\* C25: Query fan-out and message ids. MicroBruteDevice::query sends, for
\* each non-indexed parameter, exactly one request, and for each indexed
\* (sequence) parameter exactly two requests with (index, block offset,
\* block length) = (idx, 0x00, 0x20) then (idx, 0x20, 0x20), in that order;
\* across any sequence of successful sends on one connection the message-id
\* byte of each message is one greater (mod 256) than that of the previous
\* message: the messages of a command carry the ids msg_id, msg_id + 1, ...
\* and the command leaves msg_id one past the last id it used.
C25_QueryFanOut ==
    [][ cmd'.op \in {"query", "update"} =>
          /\ \A i \in 1..Len(sent') : sent'[i][7] = (msg_id + i - 1) % U8
          /\ msg_id' = msg_id + Len(sent')
          /\ (cmd'.op = "query" /\ outcome'.ok) =>
               LET owed == Concat([j \in 1..Len(cmd'.params) |->
                                      Requests(parse(cmd'.params[j], checked).val)])
               IN /\ Len(sent') = Len(owed)
                  /\ \A i \in 1..Len(sent') : AfterId(sent'[i]) = owed[i] ]_vars

\* a query of Seq/2 and Gate on a connection whose counter stands at 255:
\* three requests with the ids 255, 0, 1, the two blocks of the sequence first
C25_Witness ==
    /\ d_pc = "done" /\ cmd.op = "query" /\ outcome.ok
    /\ cmd.params = << <<"Seq", "/", "2">>, <<"Gate">> >>
    /\ Len(sent) = 3
    /\ sent[1][7] = 255 /\ sent[2][7] = 0 /\ sent[3][7] = 1
    /\ SubSeq(sent[1], 11, 12) = <<0, 32>> /\ SubSeq(sent[2], 11, 12) = <<32, 32>>
    /\ msg_id = 258

-----------------------------------------------------------------------------
(* Claims about the bytes of the messages sent *)

\* the bytes of a message between its first and its last byte
DataBytes(message) == SubSeq(message, 2, Len(message) - 1)

\* C26: SysEx data-byte validity. After any number of messages sent on a
\* connection (message-id counter of any value) and for any accepted
\* parameter, index and value, every byte strictly between the leading 0xF0
\* and the trailing 0xF7 of an emitted message is below 0x80, so no emitted
\* message contains an embedded status byte or an early 0xF7.
C26_DataBytes ==
    \A i \in 1..Len(sent) :
        /\ sent[i][1] = SYSEX_BEGIN
        /\ sent[i][Len(sent[i])] = SYSEX_END
        /\ \A k \in 1..Len(DataBytes(sent[i])) : DataBytes(sent[i])[k] < 128

-----------------------------------------------------------------------------
(* Claims about the note bytes of a sequence reply *)

\* C27: Every received note byte is renderable. For every wire note byte b
\* with 24 <= b <= 0x7e in a sequence reply, rendering (MidiNote { note:
\* b - 24 } shown by Display, as decode does) completes without arithmetic
\* underflow and yields a note name whose re-encoding (MidiNote::from_str of
\* the name, plus the offset 24) equals b.
C27_Renderable ==
    \A b \in 24..(REST_NOTE - 1) :
        n_byte = b - 24 =>
            /\ n_pc = "shown" => (n_shown.ok /\ n_shown = NoteText(b, checked))
            /\ n_pc = "reparsed" => (n_note.ok /\ n_note.val + 24 = b)


-----------------------------------------------------------------------------
(* Claims about the text of a received sequence *)

\* the tokens a step has put at the end of the list under the key
Rendered(before, after) == SubSeq(after, Len(before) + 1, Len(after))

\* the note bytes that decode renders as the name of a note at or above C0,
\* and the rest
NamedOrRest(notes) == \A i \in 1..Len(notes) : notes[i] \in 36..REST_NOTE

\* C28: Sequence text round trip including rests. The tokens rendered for
\* the note bytes of a received block of a sequence (the names of notes and
\* the rest marker "_") are accepted by bound_codes with the bound of the
\* sequence, and encode to the note bytes that were received: the rest
\* marker encodes to 0x7f.
C28_SequenceTextRoundTrip ==
    [][ (r_pc = "sysex_receiver" /\ n_recv' = n_recv + 1 /\ IsBlock(rx', MICROBRUTE)) =>
          LET body == BodyOf(rx', MICROBRUTE)
              param == SeqParam(body[5] + 1)
              key == <<"Seq", "/">> \o to_string(body[5] + 1)
              before == IF HasKey(result_map, key) THEN Entry(result_map, key).val ELSE <<>>
              tokens == Rendered(before, Entry(result_map', key).val)
          IN (r_pc' # "panicked" /\ HasKey(result_map', key) /\ NamedOrRest(BeforeZero(body))) =>
                 bound_codes(bounds(param), tokens, bound_reqs(param), checked)
                     = Ok(BeforeZero(body)) ]_vars


-----------------------------------------------------------------------------
(* Claims about the state cache of the Microbrute *)

\* C29: Device state cache. For Microbrute::set(p, v): when the send
\* succeeds the sysex counter increases by exactly 1, the call returns the
\* value get(p) returned just before, get(p) afterwards returns v, and get(q)
\* is unchanged for every q other than p; when the send fails, the cached
\* state and the counter are both unchanged.
C29_StateCache ==
    [][ mb_call'.name = "set" =>
          LET p == mb_call'.param
              v == mb_call'.value
              before == Microbrute(mb_out, mb_counter, mb_state)
              after == Microbrute(mb_out', mb_counter', mb_state')
          IN IF mb_call'.send_ok
             THEN /\ mb_counter' = mb_counter + 1
                  /\ mb_result' = Ok(Microbrute_get(before, p))
                  /\ Microbrute_get(after, p) = Some(v)
                  /\ \A q \in DOMAIN MicrobruteParameter \ {p} :
                         Microbrute_get(after, q) = Microbrute_get(before, q)
             ELSE /\ ~mb_result'.ok
                  /\ mb_state' = mb_state
                  /\ mb_counter' = mb_counter ]_vars

\* the second set that was sent: it replaced the value the parameter had
\* and returned it
C29_Witness ==
    /\ mb_call.name = "set"
    /\ mb_call.send_ok
    /\ mb_result.ok /\ mb_result.val.ok
    /\ mb_result.val.val # mb_call.value
    /\ Microbrute_get(CacheSelf, mb_call.param) = Some(mb_call.value)
    /\ mb_counter = request_state(0) + 2
    /\ Len(mb_out) = 2

=============================================================================
